---- MODULE Spec2Model ----
(***************************************************************************)
(* The authoritative tank server of src/src/tanks (server.py, tank.py,     *)
(* projectile.py) as a state machine.                                      *)
(*                                                                         *)
(* Units.  Time is in milliseconds, angles in whole degrees, positions in  *)
(* thousandths of a pixel, velocities in thousandths of a pixel per        *)
(* second; sines and cosines are in thousandths.  The clock advances in    *)
(* whole tick periods (the loop sleeps out the remainder of every tick).   *)
(***************************************************************************)
EXTENDS Integers, Sequences, FiniteSets, TLC

VARIABLES
    clients,        \* server.py:35   address -> ClientInfo (team, last_seen)
    team_tanks,     \* server.py:36   team -> list of Tank
    controls,       \* server.py:37   team -> tank id -> seven intents
    last_broadcast, \* server.py:45
    previous_time,  \* server.py:76   `now` of the running iteration
    dt,             \* server.py:79
    pc,             \* position in TankGameServer.run
    received,       \* the datagram the last step took from the socket, whether the
                    \* step before took the same one, and the sender's last_seen before
    sent,           \* the datagrams the last step handed to socket.sendto
    handled,        \* number of datagrams taken from the socket so far
    called,         \* the Tank method called last when a tank is driven directly
    ai,             \* client_ai.py:27-28  the AI client (owned_tanks, state)
    net,            \* the datagrams pending at the two sockets, and the losses
    probe           \* the function applied last to drawn arguments, and its result

vars == <<clients, team_tanks, controls, last_broadcast, previous_time, dt,
          pc, received, sent, handled, called, ai, net, probe>>

----------------------------------------------------------------------------
(* Bounds of the model. *)

\* the clock stops after this many tick periods
MaxTicks == 4
\* Tank methods called in one run that drives a tank directly
MaxCalls == 3
\* datagrams taken from the socket in one run
MaxMsgs == 3

----------------------------------------------------------------------------
(* tanks/config.py is not among the sources; its constants are externally  *)
(* supplied (spec section 6) and get small concrete values here.           *)

SERVER_TICK_RATE == 5
STATE_BROADCAST_RATE == 3
CLIENT_TIMEOUT_MS == 400
SCREEN_WIDTH == 1280
SCREEN_HEIGHT == 720
FIELD_MARGIN == 40
TANK_BODY_W == 40
TANK_BODY_H == 60
TANK_TURRET_LENGTH == 30
PROJECTILE_SPEED == 500
PROJECTILE_LIFETIME_MS == 600
PLAYER_TANK_COLOR == <<70, 160, 70>>
ENEMY_TANK_COLOR == <<180, 60, 60>>
TURRET_COLOR == <<40, 90, 40>>

\* one tick period, 1.0 / self.tick_rate
TickMs == 1000 \div SERVER_TICK_RATE

(* Tank's tunable constants, tank.py:25-28 *)
move_speed == 220
rotation_speed == 120
turret_rotation_speed == 160
reload_time_ms == 800

Teams == <<"player", "enemy">>
TeamSet == {"player", "enemy"}
TanksPerTeam == 5

----------------------------------------------------------------------------
(* math.sin / math.cos of whole degrees, in thousandths *)

SinTable ==
  <<0, 17, 35, 52, 70, 87, 105, 122, 139, 156, 174, 191, 208, 225, 242, 259, 276, 292, 309,
    326, 342, 358, 375, 391, 407, 423, 438, 454, 469, 485, 500, 515, 530, 545, 559, 574, 588,
    602, 616, 629, 643, 656, 669, 682, 695, 707, 719, 731, 743, 755, 766, 777, 788, 799, 809,
    819, 829, 839, 848, 857, 866, 875, 883, 891, 899, 906, 914, 921, 927, 934, 940, 946, 951,
    956, 961, 966, 970, 974, 978, 982, 985, 988, 990, 993, 995, 996, 998, 999, 999, 1000, 1000>>

Sin1000(deg) ==
  LET a == deg % 360 IN
  IF a <= 90 THEN SinTable[a + 1]
  ELSE IF a <= 180 THEN SinTable[180 - a + 1]
  ELSE IF a <= 270 THEN -SinTable[a - 180 + 1]
  ELSE -SinTable[360 - a + 1]

Cos1000(deg) == Sin1000(deg + 90)

Max(a, b) == IF a >= b THEN a ELSE b
Min(a, b) == IF a <= b THEN a ELSE b

\* x * (ms / 1000), rounded toward minus infinity
Scale(x, ms) == (x * ms) \div 1000

----------------------------------------------------------------------------
(* projectile.py *)

\* Projectile.from_tank
FromTank(ox, oy, angle_deg) ==
  [x |-> ox, y |-> oy,
   vx |-> Cos1000(angle_deg) * PROJECTILE_SPEED,
   vy |-> Sin1000(angle_deg) * PROJECTILE_SPEED,
   lifetime |-> PROJECTILE_LIFETIME_MS]

\* Projectile.update: the projectile after the step
ProjectileMoved(p, ms) ==
  [p EXCEPT !.x = p.x + Scale(p.vx, ms),
            !.y = p.y + Scale(p.vy, ms),
            !.lifetime = p.lifetime - ms]

\* ProjectileAlive that looks at the lifetime only
ProjectileAliveByLifetime(q) == q.lifetime > 0

\* Projectile.update: its return value, on the projectile after the step
ProjectileAlive(q) ==
  IF q.lifetime <= 0 THEN FALSE
  ELSE IF \/ q.x < 0
          \/ q.x > SCREEN_WIDTH * 1000
          \/ q.y < 0
          \/ q.y > SCREEN_HEIGHT * 1000
       THEN FALSE
       ELSE TRUE

----------------------------------------------------------------------------
(* tank.py *)

\* ClampToField that limits the x coordinate only
ClampToFieldX(t) ==
  LET margin == (FIELD_MARGIN + TANK_BODY_W \div 2) * 1000 IN
  [t EXCEPT !.x = Max(margin, Min(SCREEN_WIDTH * 1000 - margin, t.x))]

\* Tank._clamp_to_field
ClampToField(t) ==
  LET margin == (FIELD_MARGIN + TANK_BODY_W \div 2) * 1000 IN
  [t EXCEPT !.x = Max(margin, Min(SCREEN_WIDTH * 1000 - margin, t.x)),
            !.y = Max(margin, Min(SCREEN_HEIGHT * 1000 - margin, t.y))]

\* MoveForward without the call of _clamp_to_field
MoveForwardUnclamped(t, ms) ==
  [t EXCEPT !.x = t.x + Scale(Cos1000(t.angle) * move_speed, ms),
            !.y = t.y + Scale(Sin1000(t.angle) * move_speed, ms)]

\* Tank.move_forward
MoveForward(t, ms) ==
  ClampToField([t EXCEPT !.x = t.x + Scale(Cos1000(t.angle) * move_speed, ms),
                         !.y = t.y + Scale(Sin1000(t.angle) * move_speed, ms)])

\* Tank.move_backward
MoveBackward(t, ms) ==
  ClampToField([t EXCEPT !.x = t.x - Scale(Cos1000(t.angle) * move_speed, ms),
                         !.y = t.y - Scale(Sin1000(t.angle) * move_speed, ms)])

\* Tank.rotate_left
RotateLeft(t, ms) == [t EXCEPT !.angle = (t.angle - Scale(rotation_speed, ms)) % 360]

\* Tank.rotate_right
RotateRight(t, ms) == [t EXCEPT !.angle = (t.angle + Scale(rotation_speed, ms)) % 360]

\* Tank.rotate_turret_left
RotateTurretLeft(t, ms) ==
  [t EXCEPT !.turret_angle = (t.turret_angle - Scale(turret_rotation_speed, ms)) % 360]

\* Tank.rotate_turret_right
RotateTurretRight(t, ms) ==
  [t EXCEPT !.turret_angle = (t.turret_angle + Scale(turret_rotation_speed, ms)) % 360]

\* Tank.turret_tip
TurretTip(t) ==
  [x |-> t.x + Cos1000(t.turret_angle) * (TANK_BODY_H \div 2 + TANK_TURRET_LENGTH),
   y |-> t.y + Sin1000(t.turret_angle) * (TANK_BODY_H \div 2 + TANK_TURRET_LENGTH)]

\* Fire without the cooldown guard
FireAlways(t) ==
  [t EXCEPT !.projectiles =
                Append(t.projectiles,
                       FromTank(TurretTip(t).x, TurretTip(t).y, t.turret_angle)),
            !.cooldown = reload_time_ms]

\* Fire that leaves the cooldown as it is
FireKeepsCooldown(t) ==
  IF t.cooldown > 0 THEN t
  ELSE [t EXCEPT
          !.projectiles = Append(@, FromTank(TurretTip(t).x, TurretTip(t).y,
                                             t.turret_angle))]

\* Tank.fire
Fire(t) ==
  IF t.cooldown > 0 THEN t
  ELSE [t EXCEPT !.projectiles =
                     Append(t.projectiles,
                            FromTank(TurretTip(t).x, TurretTip(t).y, t.turret_angle)),
                 !.cooldown = reload_time_ms]

\* Tank.update, the loop over the projectiles
AliveProjectiles(ps, ms) ==
  SelectSeq([i \in 1..Len(ps) |-> ProjectileMoved(ps[i], ms)], ProjectileAlive)

\* Update that lowers the cooldown without the floor of max
UpdateUnfloored(t, ms) ==
  [t EXCEPT !.cooldown = IF t.cooldown > 0 THEN t.cooldown - ms ELSE t.cooldown,
            !.projectiles = AliveProjectiles(t.projectiles, ms)]

\* Tank.update
Update(t, ms) ==
  [t EXCEPT !.cooldown = IF t.cooldown > 0 THEN Max(0, t.cooldown - ms) ELSE t.cooldown,
            !.projectiles = AliveProjectiles(t.projectiles, ms)]

----------------------------------------------------------------------------
(* The four rotations of tank.py in the arithmetic of the code, Python      *)
(* floats (IEEE 754 doubles).  A double at or next to a whole number of     *)
(* degrees is a record [deg, q] that stands for deg + q * 2^-47 degrees; an *)
(* elapsed time is a record [ms, ulps] that stands for ms / 1000 seconds    *)
(* plus ulps * 2^-53, with ms / 1000 a double of [0.5, 1).                  *)

\* how far apart the doubles of magnitude [whole, whole + 1) are, in 2^-47:
\* 52 fraction bits put 2^-47 between the doubles of [32, 64)
FloatSpacing(whole) ==
  IF whole < 64 THEN 1
  ELSE IF whole < 128 THEN 2
  ELSE IF whole < 256 THEN 4
  ELSE IF whole < 512 THEN 8
  ELSE 16

\* the multiple of `grid` nearest to n, of two equally near ones the even
\* multiple: round-half-to-even, the rounding of every float operation
RoundHalfEven(n, grid) ==
  LET down == (n \div grid) * grid
      up == down + grid
  IN  IF n - down < up - n THEN down
      ELSE IF n - down > up - n THEN up
      ELSE IF (down \div grid) % 2 = 0 THEN down ELSE up

\* the double nearest to the sum deg + q * 2^-47
Float(deg, q) ==
  LET whole == IF deg < 0 THEN -deg ELSE deg
      below == IF (deg > 0 /\ q < 0) \/ (deg < 0 /\ q > 0) THEN 1 ELSE 0
  IN  [deg |-> deg, q |-> RoundHalfEven(q, FloatSpacing(whole - below))]

FloatNegative(v) == v.deg < 0 \/ (v.deg = 0 /\ v.q < 0)

\* `self.rotation_speed * dt`: the rate is a whole number of degrees per
\* second, and rate * ulps * 2^-53 is rate * ulps / 64 times 2^-47
FloatTimes(rate, elapsed) ==
  LET deg == (rate * elapsed.ms) \div 1000
      grid == 64 * FloatSpacing(deg)
  IN  [deg |-> deg, q |-> RoundHalfEven(rate * elapsed.ulps, grid) \div 64]

\* a + b and a - b
FloatPlus(a, b) == Float(a.deg + b.deg, a.q + b.q)
FloatMinus(a, b) == Float(a.deg - b.deg, a.q - b.q)

\* C fmod(v, 360): the remainder has the sign of v and is exact
FloatFmod360(v) ==
  LET neg == FloatNegative(v)
      deg == IF neg THEN -v.deg ELSE v.deg
      q == IF neg THEN -v.q ELSE v.q
      turns == IF q < 0 THEN (deg - 1) \div 360 ELSE deg \div 360
  IN  IF neg THEN [deg |-> -(deg - 360 * turns), q |-> -q]
      ELSE [deg |-> deg - 360 * turns, q |-> q]

\* Python's v % 360 of a float (float_rem of CPython): fmod, and if the
\* remainder is negative, remainder + 360, which is rounded as every sum is
FloatMod360(v) ==
  LET mod == FloatFmod360(v) IN
  IF mod.deg = 0 /\ mod.q = 0 THEN [deg |-> 0, q |-> 0]
  ELSE IF FloatNegative(mod) THEN Float(mod.deg + 360, mod.q)
  ELSE mod

\* Tank.rotate_left, rotate_right, rotate_turret_left and rotate_turret_right
\* of a tank whose angles are the doubles `angle` and `turret_angle`
FloatRotate(op, t, elapsed) ==
  CASE op = "rotate_left" ->
         [t EXCEPT !.angle =
            FloatMod360(FloatMinus(t.angle, FloatTimes(rotation_speed, elapsed)))]
    [] op = "rotate_right" ->
         [t EXCEPT !.angle =
            FloatMod360(FloatPlus(t.angle, FloatTimes(rotation_speed, elapsed)))]
    [] op = "rotate_turret_left" ->
         [t EXCEPT !.turret_angle =
            FloatMod360(FloatMinus(t.turret_angle,
                                   FloatTimes(turret_rotation_speed, elapsed)))]
    [] op = "rotate_turret_right" ->
         [t EXCEPT !.turret_angle =
            FloatMod360(FloatPlus(t.turret_angle,
                                  FloatTimes(turret_rotation_speed, elapsed)))]

----------------------------------------------------------------------------
(* JSON values as they arrive in a datagram.  A scalar is a record of its  *)
(* JSON type and its text, an object a record holding a function.          *)

JStr(s) == [t |-> "str", s |-> s]
JAbsent == [t |-> "absent", s |-> ""]
JList == [t |-> "list", s |-> ""]

JObj(f) == [t |-> "obj", o |-> f]
JNotObj == [t |-> "list", o |-> <<>>]

\* bool(v) of a JSON scalar given by its text
Truthy(v) == v \notin {"false", "0", "null", ""}

IntentNames ==
  <<"move_forward", "move_backward", "rotate_left", "rotate_right",
    "turret_left", "turret_right", "fire">>

\* control.get(name, False), then bool()
IntentOf(control, name) ==
  IF name \in DOMAIN control THEN Truthy(control[name]) ELSE FALSE

\* the dictionary _handle_input stores for one tank, server.py:139-147
StoredControl(control) ==
  [move_forward  |-> IntentOf(control, "move_forward"),
   move_backward |-> IntentOf(control, "move_backward"),
   rotate_left   |-> IntentOf(control, "rotate_left"),
   rotate_right  |-> IntentOf(control, "rotate_right"),
   turret_left   |-> IntentOf(control, "turret_left"),
   turret_right  |-> IntentOf(control, "turret_right"),
   fire          |-> IntentOf(control, "fire")]

----------------------------------------------------------------------------
(* The datagrams the network may deliver. *)

Addresses == {"a1", "a2"}

\* how many tick periods one sleep may last
Stalls == {1, 2}

\* the elapsed times handed to a Tank method that is called directly
DtChoices == {TickMs, 4 * TickMs}

CtlFire == JObj("fire" :> "true")
CtlEmpty == JObj(<<>>)
CtlTurret == JObj("turret_right" :> "true" @@ "fire" :> "false")
CtlMove == JObj("move_forward" :> "1" @@ "rotate_right" :> "true")

CommandDicts ==
  { JObj("player_0" :> CtlFire),
    JObj("player_0" :> CtlEmpty),
    JObj("enemy_0" :> CtlTurret),
    JObj("ghost" :> CtlFire),
    JObj("player_0" :> CtlMove @@ "player_1" :> CtlTurret),
    JObj("player_0" :> JNotObj),
    JNotObj }

JoinTeams == {JStr("player"), JStr("enemy"), JStr("alien"), JAbsent, JList}
InputTeams == {JStr("player"), JStr("enemy")}

Datagrams ==
  {[kind |-> "join", team |-> tm] : tm \in JoinTeams}
    \cup {[kind |-> "input", team |-> tm, commands |-> c] :
            tm \in InputTeams, c \in CommandDicts}
    \cup {[kind |-> k] : k \in {"badutf8", "badjson", "nonobject", "othertype"}}

NoDatagram == [kind |-> "none"]

----------------------------------------------------------------------------
(* server.py *)

PlayerIds == <<"player_0", "player_1", "player_2", "player_3", "player_4">>
EnemyIds == <<"enemy_0", "enemy_1", "enemy_2", "enemy_3", "enemy_4">>

\* TankGameServer._create_teams, one tank of the player team
PlayerTank(index) ==
  LET spacing == ((SCREEN_WIDTH - 2 * FIELD_MARGIN) * 1000) \div 6 IN
  [identifier |-> PlayerIds[index + 1],
   is_player |-> (index = 0),
   x |-> FIELD_MARGIN * 1000 + spacing * (index + 1),
   y |-> (SCREEN_HEIGHT * 1000 * 3) \div 4,
   angle |-> 270, turret_angle |-> 270,
   color |-> PLAYER_TANK_COLOR, turret_color |-> TURRET_COLOR,
   cooldown |-> 0, projectiles |-> <<>>]

\* TankGameServer._create_teams, one tank of the enemy team
EnemyTank(index) ==
  LET spacing == ((SCREEN_WIDTH - 2 * FIELD_MARGIN) * 1000) \div 6 IN
  [identifier |-> EnemyIds[index + 1],
   is_player |-> FALSE,
   x |-> FIELD_MARGIN * 1000 + spacing * (index + 1),
   y |-> (SCREEN_HEIGHT * 1000) \div 4,
   angle |-> 90, turret_angle |-> 90,
   color |-> ENEMY_TANK_COLOR, turret_color |-> ENEMY_TANK_COLOR,
   cooldown |-> 0, projectiles |-> <<>>]

\* TankGameServer._create_teams
CreateTeams ==
  [player |-> [i \in 1..TanksPerTeam |-> PlayerTank(i - 1)],
   enemy  |-> [i \in 1..TanksPerTeam |-> EnemyTank(i - 1)]]

\* the AI client before it is constructed
NoClient == [pc |-> "init", owned_tanks |-> <<>>, state |-> <<>>, last |-> "none"]

\* TankGameServer.__init__, and run() up to the first drain
Init ==
  /\ clients = <<>>
  /\ team_tanks = CreateTeams
  /\ controls = [player |-> <<>>, enemy |-> <<>>]
  /\ last_broadcast = 0
  /\ previous_time = 0
  /\ dt = 0
  /\ pc = "recv"
  /\ received = [from |-> "", msg |-> NoDatagram, dup |-> FALSE, seen |-> -1]
  /\ sent = {}
  /\ handled = 0
  /\ called = [op |-> "none", team |-> "player", index |-> 1, ms |-> 0,
               before |-> PlayerTank(0), n |-> 0]
  /\ ai = NoClient
  /\ net = [inbox |-> <<>>, ai_inbox |-> <<>>, lost |-> 0]
  /\ probe = [op |-> "none"]

\* TankIdsOf that lists the tanks of every team
TankIdsOfAllTeams(team) ==
  [i \in 1..Len(team_tanks.player) |-> team_tanks.player[i].identifier]
    \o [i \in 1..Len(team_tanks.enemy) |-> team_tanks.enemy[i].identifier]

\* the tank identifiers of a team, server.py:123
TankIdsOf(team) == [i \in 1..Len(team_tanks[team]) |-> team_tanks[team][i].identifier]

\* time.time() and time.perf_counter() as read during the running iteration
Time == previous_time

NothingReceived == [from |-> "", msg |-> NoDatagram, dup |-> FALSE, seen |-> -1]

\* an exception leaves run(): the process ends
Crash ==
  /\ pc' = "crashed"
  /\ sent' = {}
  /\ UNCHANGED <<clients, team_tanks, controls, last_broadcast, previous_time, dt>>

\* JoinTeam without the default of message.get
JoinTeamNoDefault(d) == d.team

\* message.get("team", "player"), server.py:113
JoinTeam(d) == IF d.team.t = "absent" THEN JStr("player") ELSE d.team

\* `team not in self.team_tanks`, server.py:114
UnknownTeam(team) == ~(team.t = "str" /\ team.s \in DOMAIN team_tanks)

\* HandleJoin with the session stored before the team is validated
HandleJoinStoresFirst(d, a) ==
  LET team == JoinTeam(d) IN
  /\ clients' = [x \in DOMAIN clients \cup {a} |->
                   IF x = a
                   THEN [address |-> a, team |-> team.s, last_seen |-> Time]
                   ELSE clients[x]]
  /\ sent' = {[to |-> a,
               payload |-> IF UnknownTeam(team)
                           THEN [type |-> "error", team |-> team]
                           ELSE [type |-> "joined", team |-> team.s,
                                 tanks |-> TankIdsOf(team.s)]]}
  /\ UNCHANGED <<team_tanks, controls, last_broadcast, previous_time, dt, pc>>

\* HandleJoin that gives the team of the new session one more tank
HandleJoinAddsTank(d, a) ==
  LET team == JoinTeam(d) IN
  IF team.t = "list" THEN Crash
  ELSE IF UnknownTeam(team)
  THEN /\ sent' = {[to |-> a, payload |-> [type |-> "error", team |-> team]]}
       /\ UNCHANGED <<clients, team_tanks, controls, last_broadcast,
                      previous_time, dt, pc>>
  ELSE /\ clients' = [x \in DOMAIN clients \cup {a} |->
                        IF x = a
                        THEN [address |-> a, team |-> team.s, last_seen |-> Time]
                        ELSE clients[x]]
       /\ team_tanks' = [team_tanks EXCEPT
                           ![team.s] = Append(@, [@[1] EXCEPT !.identifier = a])]
       /\ sent' = {[to |-> a,
                    payload |-> [type |-> "joined", team |-> team.s,
                                 tanks |-> TankIdsOf(team.s)]]}
       /\ UNCHANGED <<controls, last_broadcast, previous_time, dt, pc>>

\* HandleJoin that keeps the team of a session the sender already holds
HandleJoinKeepsTeam(d, a) ==
  LET team == JoinTeam(d) IN
  IF team.t = "list" THEN Crash
  ELSE IF UnknownTeam(team)
  THEN /\ sent' = {[to |-> a, payload |-> [type |-> "error", team |-> team]]}
       /\ UNCHANGED <<clients, team_tanks, controls, last_broadcast,
                      previous_time, dt, pc>>
  ELSE /\ clients' = [x \in DOMAIN clients \cup {a} |->
                        IF x # a THEN clients[x]
                        ELSE IF a \in DOMAIN clients
                        THEN [clients[a] EXCEPT !.last_seen = Time]
                        ELSE [address |-> a, team |-> team.s, last_seen |-> Time]]
       /\ sent' = {[to |-> a,
                    payload |-> [type |-> "joined", team |-> team.s,
                                 tanks |-> TankIdsOf(team.s)]]}
       /\ UNCHANGED <<team_tanks, controls, last_broadcast, previous_time, dt, pc>>

\* TankGameServer._handle_join
HandleJoin(d, a) ==
  LET team == JoinTeam(d) IN
  IF team.t = "list" THEN Crash
  ELSE IF UnknownTeam(team)
  THEN /\ sent' = {[to |-> a, payload |-> [type |-> "error", team |-> team]]}
       /\ UNCHANGED <<clients, team_tanks, controls, last_broadcast,
                      previous_time, dt, pc>>
  ELSE /\ clients' = [x \in DOMAIN clients \cup {a} |->
                        IF x = a
                        THEN [address |-> a, team |-> team.s, last_seen |-> Time]
                        ELSE clients[x]]
       /\ sent' = {[to |-> a,
                    payload |-> [type |-> "joined", team |-> team.s,
                                 tanks |-> TankIdsOf(team.s)]]}
       /\ UNCHANGED <<team_tanks, controls, last_broadcast, previous_time, dt, pc>>

\* InputAccepted without the comparison of the claimed team
InputAcceptedAnyTeam(d, a) == a \in DOMAIN clients

\* the guards of _handle_input, server.py:128-134
InputAccepted(d, a) ==
  /\ a \in DOMAIN clients
  /\ d.team = JStr(clients[a].team)

\* message.get("commands", {}), server.py:136
InputCommands(d) == IF d.commands.t = "absent" THEN JObj(<<>>) ELSE d.commands

\* commands.items() or control.get raises, server.py:138-140
InputRaises(d) ==
  LET commands == InputCommands(d) IN
  \/ commands.t # "obj"
  \/ \E id \in DOMAIN commands.o : commands.o[id].t # "obj"

\* Overwritten that replaces the whole buffer of the team by the input
OverwrittenReplacingBuffer(team_controls, commands) ==
  [id \in DOMAIN commands |-> StoredControl(commands[id].o)]

\* Overwritten that keeps the stored value of an intent the input leaves out
OverwrittenFieldwise(team_controls, commands) ==
  [id \in DOMAIN team_controls \cup DOMAIN commands |->
     IF id \notin DOMAIN commands THEN team_controls[id]
     ELSE IF id \notin DOMAIN team_controls THEN StoredControl(commands[id].o)
     ELSE [name \in DOMAIN team_controls[id] |->
             IF name \in DOMAIN commands[id].o
             THEN Truthy(commands[id].o[name])
             ELSE team_controls[id][name]]]

\* the command buffer of one team after the loop of server.py:138-147
Overwritten(team_controls, commands) ==
  [id \in DOMAIN team_controls \cup DOMAIN commands |->
     IF id \in DOMAIN commands
     THEN StoredControl(commands[id].o)
     ELSE team_controls[id]]

\* HandleInput that stores the commands in the buffers of both teams
HandleInputBothTeams(d, a) ==
  IF ~InputAccepted(d, a)
  THEN /\ sent' = {}
       /\ UNCHANGED <<clients, team_tanks, controls, last_broadcast,
                      previous_time, dt, pc>>
  ELSE IF InputRaises(d) THEN Crash
  ELSE /\ controls' = [team \in DOMAIN controls |->
                         Overwritten(controls[team], InputCommands(d).o)]
       /\ clients' = [clients EXCEPT ![a].last_seen = Time]
       /\ sent' = {}
       /\ UNCHANGED <<team_tanks, last_broadcast, previous_time, dt, pc>>

\* HandleInput without the last_seen update of server.py:149
HandleInputKeepsLastSeen(d, a) ==
  IF ~InputAccepted(d, a)
  THEN /\ sent' = {}
       /\ UNCHANGED <<clients, team_tanks, controls, last_broadcast,
                      previous_time, dt, pc>>
  ELSE IF InputRaises(d) THEN Crash
  ELSE LET team == clients[a].team IN
       /\ controls' = [controls EXCEPT
                         ![team] = Overwritten(@, InputCommands(d).o)]
       /\ sent' = {}
       /\ UNCHANGED <<clients, team_tanks, last_broadcast, previous_time, dt, pc>>

\* HandleInput that opens a session for a sender that holds none
HandleInputRevives(d, a) ==
  IF a \notin DOMAIN clients /\ ~UnknownTeam(d.team)
  THEN /\ clients' = [x \in DOMAIN clients \cup {a} |->
                        IF x = a
                        THEN [address |-> a, team |-> d.team.s, last_seen |-> Time]
                        ELSE clients[x]]
       /\ sent' = {}
       /\ UNCHANGED <<team_tanks, controls, last_broadcast, previous_time, dt, pc>>
  ELSE IF ~InputAccepted(d, a)
  THEN /\ sent' = {}
       /\ UNCHANGED <<clients, team_tanks, controls, last_broadcast,
                      previous_time, dt, pc>>
  ELSE IF InputRaises(d) THEN Crash
  ELSE LET team == clients[a].team IN
       /\ controls' = [controls EXCEPT
                         ![team] = Overwritten(@, InputCommands(d).o)]
       /\ clients' = [clients EXCEPT ![a].last_seen = Time]
       /\ sent' = {}
       /\ UNCHANGED <<team_tanks, last_broadcast, previous_time, dt, pc>>

\* TankGameServer._handle_input
HandleInput(d, a) ==
  IF ~InputAccepted(d, a)
  THEN /\ sent' = {}
       /\ UNCHANGED <<clients, team_tanks, controls, last_broadcast,
                      previous_time, dt, pc>>
  ELSE IF InputRaises(d) THEN Crash
  ELSE LET team == clients[a].team IN
       /\ controls' = [controls EXCEPT
                         ![team] = Overwritten(@, InputCommands(d).o)]
       /\ clients' = [clients EXCEPT ![a].last_seen = Time]
       /\ sent' = {}
       /\ UNCHANGED <<team_tanks, last_broadcast, previous_time, dt, pc>>

\* TankGameServer._receive_messages, one datagram: server.py:97-110
Dispatch(d, a) ==
  CASE d.kind = "badutf8" -> Crash
    [] d.kind = "nonobject" -> Crash
    [] d.kind = "join" -> HandleJoin(d, a)
    [] d.kind = "input" -> HandleInput(d, a)
    [] OTHER -> /\ sent' = {}
                /\ UNCHANGED <<clients, team_tanks, controls, last_broadcast,
                               previous_time, dt, pc>>

\* one turn of the drain loop that finds a datagram pending
Receive(d, a) ==
  /\ pc = "recv"
  /\ handled < MaxMsgs
  /\ handled' = handled + 1
  /\ received' = [from |-> a, msg |-> d,
                  dup |-> (received.from = a /\ received.msg = d),
                  seen |-> IF a \in DOMAIN clients THEN clients[a].last_seen ELSE -1]
  /\ Dispatch(d, a)
  /\ UNCHANGED <<called, ai, net, probe>>

\* DrainDone that goes on to _update_world, passing _apply_controls by
DrainDoneSkipsApply ==
  /\ pc = "recv"
  /\ pc' = "update"
  /\ received' = NothingReceived
  /\ sent' = {}
  /\ UNCHANGED <<clients, team_tanks, controls, last_broadcast, previous_time,
                 dt, handled>>
  /\ UNCHANGED <<called, ai, net, probe>>

\* recvfrom raises BlockingIOError: the drain ends, server.py:98-99
DrainDone ==
  /\ pc = "recv"
  /\ pc' = "apply"
  /\ received' = NothingReceived
  /\ sent' = {}
  /\ UNCHANGED <<clients, team_tanks, controls, last_broadcast, previous_time,
                 dt, handled>>
  /\ UNCHANGED <<called, ai, net, probe>>

NoIntents == StoredControl(<<>>)

\* ControlFor that searches the buffers of both teams
ControlForAnyTeam(team, identifier) ==
  IF identifier \in DOMAIN controls[team] THEN controls[team][identifier]
  ELSE IF \E u \in DOMAIN controls : identifier \in DOMAIN controls[u]
  THEN controls[CHOOSE u \in DOMAIN controls : identifier \in DOMAIN controls[u]][identifier]
  ELSE NoIntents

\* ControlFor that finds no intents for a team without a session
ControlForLiveTeam(team, identifier) ==
  IF /\ identifier \in DOMAIN controls[team]
     /\ \E a \in DOMAIN clients : clients[a].team = team
  THEN controls[team][identifier]
  ELSE NoIntents

\* team_controls.get(tank.identifier or "", {}), server.py:153-155
ControlFor(team, identifier) ==
  IF identifier \in DOMAIN controls[team] THEN controls[team][identifier] ELSE NoIntents

\* the body of the loop of _apply_controls for one tank, server.py:156-169
ApplyControl(t, c, ms) ==
  LET t1 == IF c.move_forward THEN MoveForward(t, ms) ELSE t
      t2 == IF c.move_backward THEN MoveBackward(t1, ms) ELSE t1
      t3 == IF c.rotate_left THEN RotateLeft(t2, ms) ELSE t2
      t4 == IF c.rotate_right THEN RotateRight(t3, ms) ELSE t3
      t5 == IF c.turret_left THEN RotateTurretLeft(t4, ms) ELSE t4
      t6 == IF c.turret_right THEN RotateTurretRight(t5, ms) ELSE t5
  IN  IF c.fire THEN Fire(t6) ELSE t6

\* TankGameServer._apply_controls
ApplyControls ==
  /\ pc = "apply"
  /\ team_tanks' = [team \in DOMAIN team_tanks |->
                      [i \in 1..Len(team_tanks[team]) |->
                         ApplyControl(team_tanks[team][i],
                                      ControlFor(team, team_tanks[team][i].identifier),
                                      dt)]]
  /\ pc' = "update"
  /\ received' = NothingReceived
  /\ sent' = {}
  /\ UNCHANGED <<clients, controls, last_broadcast, previous_time, dt, handled>>
  /\ UNCHANGED <<called, ai, net, probe>>

\* TankGameServer._update_world
UpdateWorld ==
  /\ pc = "update"
  /\ team_tanks' = [team \in DOMAIN team_tanks |->
                      [i \in 1..Len(team_tanks[team]) |->
                         Update(team_tanks[team][i], dt)]]
  /\ pc' = "bcast"
  /\ received' = NothingReceived
  /\ sent' = {}
  /\ UNCHANGED <<clients, controls, last_broadcast, previous_time, dt, handled>>
  /\ UNCHANGED <<called, ai, net, probe>>

\* ProjectileState is imported by tank.py but defined in no source file;
\* the protocol (spec 4.4) lists a projectile as {x, y, ...}
ProjectileToDict(p) == [x |-> p.x, y |-> p.y]

\* Tank.to_state
ToState(t, team) ==
  [identifier |-> t.identifier,
   team |-> team,
   x |-> t.x, y |-> t.y,
   angle |-> t.angle, turret_angle |-> t.turret_angle,
   color |-> t.color, turret_color |-> t.turret_color,
   is_player |-> t.is_player,
   projectiles |-> [i \in 1..Len(t.projectiles) |-> ProjectileToDict(t.projectiles[i])]]

\* list(...) of a tuple of numbers: the JSON array of a colour
PyList(tuple) == [list |-> tuple]

\* tuple(...) of such a list
PyTuple(list) == list.list

\* ProjectileState is imported by tank.py but defined in no source file:
\* its to_dict and from_dict carry the coordinates the protocol lists
ProjectileStateToDict(ps) == [x |-> ps.x, y |-> ps.y]

ProjectileStateFromDict(d) == [x |-> d.x, y |-> d.y]

\* ToDict that leaves out the is_player key
ToDictDropsIsPlayer(st) ==
  [id |-> st.identifier,
   team |-> st.team,
   x |-> st.x, y |-> st.y,
   angle |-> st.angle, turret_angle |-> st.turret_angle,
   color |-> PyList(st.color), turret_color |-> PyList(st.turret_color),
   projectiles |-> [i \in 1..Len(st.projectiles) |->
                      ProjectileStateToDict(st.projectiles[i])]]

\* TankState.to_dict
ToDict(st) ==
  [id |-> st.identifier,
   team |-> st.team,
   x |-> st.x, y |-> st.y,
   angle |-> st.angle, turret_angle |-> st.turret_angle,
   color |-> PyList(st.color), turret_color |-> PyList(st.turret_color),
   is_player |-> st.is_player,
   projectiles |-> [i \in 1..Len(st.projectiles) |->
                      ProjectileStateToDict(st.projectiles[i])]]

\* TankState.from_dict.  Identifiers and teams are strings and coordinates
\* and angles numbers here, which str() and float() give back unchanged.
FromDict(payload) ==
  [identifier |-> payload.id,
   team |-> payload.team,
   x |-> payload.x, y |-> payload.y,
   angle |-> payload.angle, turret_angle |-> payload.turret_angle,
   color |-> IF "color" \in DOMAIN payload
             THEN PyTuple(payload.color) ELSE PLAYER_TANK_COLOR,
   turret_color |-> IF "turret_color" \in DOMAIN payload
                    THEN PyTuple(payload.turret_color) ELSE TURRET_COLOR,
   is_player |-> IF "is_player" \in DOMAIN payload THEN payload.is_player ELSE FALSE,
   projectiles |-> IF "projectiles" \in DOMAIN payload
                   THEN [i \in 1..Len(payload.projectiles) |->
                           ProjectileStateFromDict(payload.projectiles[i])]
                   ELSE <<>>]

\* the tanks of one team as TankStates, the inner loop of _collect_state
TeamStates(team) ==
  [i \in 1..Len(team_tanks[team]) |-> ToState(team_tanks[team][i], team)]

\* CollectState that visits the first team only
CollectStateFirstTeam == TeamStates(Teams[1])

\* TankGameServer._collect_state: the teams in the order of the dictionary
CollectState == TeamStates(Teams[1]) \o TeamStates(Teams[2])

\* the payload of _broadcast_state, server.py:184-188
StatePayload(timestamp) ==
  [type |-> "state",
   timestamp |-> timestamp,
   tanks |-> [i \in 1..Len(CollectState) |-> ToDict(CollectState[i])]]

\* Expired that holds of no session
ExpiredNever(client, t) == FALSE

\* server.py:193
Expired(client, t) == t - client.last_seen > CLIENT_TIMEOUT_MS

\* the sessions _broadcast_state removes at time t, server.py:191-195
ExpiredClients(cl, t) == {a \in DOMAIN cl : Expired(cl[a], t)}

\* Swept without the deletions
SweptNothing(cl, t) == cl

\* the registry after the deletions of server.py:198-200
Swept(cl, t) == [a \in DOMAIN cl \ ExpiredClients(cl, t) |-> cl[a]]

\* BroadcastIsDue that holds in every iteration
BroadcastDueAlways == TRUE

\* `now - self.last_broadcast >= 1.0 / self.broadcast_rate`, server.py:86
BroadcastIsDue == (previous_time - last_broadcast) * STATE_BROADCAST_RATE >= 1000

\* Broadcast that counts a snapshot it sends as a sign of life of the session
BroadcastRefreshes ==
  /\ pc = "bcast"
  /\ BroadcastIsDue
  /\ sent' = {[to |-> a, payload |-> StatePayload(previous_time)] :
                a \in DOMAIN clients \ ExpiredClients(clients, Time)}
  /\ clients' = [a \in DOMAIN clients \ ExpiredClients(clients, Time) |->
                   [clients[a] EXCEPT !.last_seen = Time]]
  /\ last_broadcast' = previous_time
  /\ pc' = "sleep"
  /\ received' = NothingReceived
  /\ UNCHANGED <<team_tanks, controls, previous_time, dt, handled>>

\* TankGameServer._broadcast_state, and the timer reset of server.py:88
Broadcast ==
  /\ pc = "bcast"
  /\ BroadcastIsDue
  /\ sent' = {[to |-> a, payload |-> StatePayload(previous_time)] :
                a \in DOMAIN clients \ ExpiredClients(clients, Time)}
  /\ clients' = Swept(clients, Time)
  /\ last_broadcast' = previous_time
  /\ pc' = "sleep"
  /\ received' = NothingReceived
  /\ UNCHANGED <<team_tanks, controls, previous_time, dt, handled>>

\* an iteration in which a broadcast is due
BroadcastState ==
  /\ Broadcast
  /\ UNCHANGED <<called, ai, net, probe>>

\* an iteration in which no broadcast is due
SkipBroadcast ==
  /\ pc = "bcast"
  /\ ~BroadcastIsDue
  /\ pc' = "sleep"
  /\ received' = NothingReceived
  /\ sent' = {}
  /\ UNCHANGED <<clients, team_tanks, controls, last_broadcast, previous_time,
                 dt, handled>>
  /\ UNCHANGED <<called, ai, net, probe>>

\* the sleep that ends an iteration and the clock reading that starts the
\* next, server.py:90-92 and 78-80
Sleep(ticks) ==
  /\ pc = "sleep"
  /\ previous_time + ticks * TickMs <= MaxTicks * TickMs
  /\ previous_time' = previous_time + ticks * TickMs
  /\ dt' = ticks * TickMs
  /\ pc' = "recv"
  /\ received' = NothingReceived
  /\ sent' = {}
  /\ UNCHANGED <<clients, team_tanks, controls, last_broadcast, handled>>
  /\ UNCHANGED <<called, ai, net, probe>>

----------------------------------------------------------------------------
(* client_ai.py: the pure part of the AI client *)

\* the key of min in _select_target, client_ai.py:91, in squares of a tenth
\* of a pixel
SquaredDistance(friendly, enemy) ==
  ((enemy.x - friendly.x) \div 100) * ((enemy.x - friendly.x) \div 100)
    + ((enemy.y - friendly.y) \div 100) * ((enemy.y - friendly.y) \div 100)

\* min(enemies, key=...) from position i on, `best` the index kept so far:
\* a later element replaces it only if its key is strictly smaller
RECURSIVE MinFrom(_, _, _, _)
MinFrom(friendly, enemies, i, best) ==
  IF i > Len(enemies) THEN best
  ELSE MinFrom(friendly, enemies, i + 1,
               IF SquaredDistance(friendly, enemies[i])
                    < SquaredDistance(friendly, enemies[best])
               THEN i ELSE best)

\* MinFrom that also lets an element with an equal key replace the one kept
RECURSIVE MinFromLast(_, _, _, _)
MinFromLast(friendly, enemies, i, best) ==
  IF i > Len(enemies) THEN best
  ELSE MinFromLast(friendly, enemies, i + 1,
                   IF SquaredDistance(friendly, enemies[i])
                        <= SquaredDistance(friendly, enemies[best])
                   THEN i ELSE best)

\* SelectTarget that returns the last of the nearest enemies
SelectTargetLast(friendly, enemies) == enemies[MinFromLast(friendly, enemies, 2, 1)]

\* AITankClient._select_target
SelectTarget(friendly, enemies) == enemies[MinFrom(friendly, enemies, 2, 1)]

\* math.degrees(math.atan2(dy, dx)) % 360: exact on the axes and diagonals,
\* the nearest whole degree elsewhere
Atan2Deg(dy, dx) ==
  CASE dy = 0 /\ dx >= 0 -> 0
    [] dy = 0 /\ dx < 0 -> 180
    [] dx = 0 /\ dy > 0 -> 90
    [] dx = 0 /\ dy < 0 -> 270
    [] dx = dy /\ dx > 0 -> 45
    [] dx = dy /\ dx < 0 -> 225
    [] dx = -dy /\ dx > 0 -> 315
    [] dx = -dy /\ dx < 0 -> 135
    [] OTHER ->
         CHOOSE a \in 0..359 :
           \A b \in 0..359 :
             (dx \div 1000) * Cos1000(a) + (dy \div 1000) * Sin1000(a)
               >= (dx \div 1000) * Cos1000(b) + (dy \div 1000) * Sin1000(b)

\* (desired_angle - angle + 540) % 360 - 180, client_ai.py:105 and 115
AngleDiff(desired_angle, angle) == ((desired_angle - angle + 540) % 360) - 180

\* ComputeCommand whose deadbands leave out their boundary values
ComputeCommandInclusive(friendly, target) ==
  LET desired_angle == Atan2Deg(target.y - friendly.y, target.x - friendly.x)
      angle_diff == AngleDiff(desired_angle, friendly.turret_angle)
      hull_diff == AngleDiff(desired_angle, friendly.angle)
  IN  [move_forward  |-> FALSE,
       move_backward |-> FALSE,
       rotate_left   |-> ~(hull_diff >= 10) /\ hull_diff <= -10,
       rotate_right  |-> hull_diff >= 10,
       turret_left   |-> ~(angle_diff >= 5) /\ angle_diff <= -5,
       turret_right  |-> angle_diff >= 5,
       fire          |-> ~(angle_diff >= 5) /\ ~(angle_diff <= -5)]

\* ComputeCommand that takes the hull error for the decision to fire
ComputeCommandHullFires(friendly, target) ==
  LET desired_angle == Atan2Deg(target.y - friendly.y, target.x - friendly.x)
      angle_diff == AngleDiff(desired_angle, friendly.turret_angle)
      hull_diff == AngleDiff(desired_angle, friendly.angle)
  IN  [move_forward  |-> FALSE,
       move_backward |-> FALSE,
       rotate_left   |-> ~(hull_diff > 10) /\ hull_diff < -10,
       rotate_right  |-> hull_diff > 10,
       turret_left   |-> ~(angle_diff > 5) /\ angle_diff < -5,
       turret_right  |-> angle_diff > 5,
       fire          |-> ~(hull_diff > 10) /\ ~(hull_diff < -10)]

\* AITankClient._compute_command
ComputeCommand(friendly, target) ==
  LET desired_angle == Atan2Deg(target.y - friendly.y, target.x - friendly.x)
      angle_diff == AngleDiff(desired_angle, friendly.turret_angle)
      hull_diff == AngleDiff(desired_angle, friendly.angle)
  IN  [move_forward  |-> FALSE,
       move_backward |-> FALSE,
       rotate_left   |-> ~(hull_diff > 10) /\ hull_diff < -10,
       rotate_right  |-> hull_diff > 10,
       turret_left   |-> ~(angle_diff > 5) /\ angle_diff < -5,
       turret_right  |-> angle_diff > 5,
       fire          |-> ~(angle_diff > 5) /\ ~(angle_diff < -5)]

\* HandleMessage that keeps the view the client has and takes only the
\* first snapshot
HandleMessageKeepsView(client, message) ==
  [client EXCEPT
     !.owned_tanks = IF message.type = "joined" THEN message.tanks ELSE @,
     !.state = IF message.type = "state" /\ client.state = <<>>
               THEN [i \in 1..Len(message.tanks) |-> FromDict(message.tanks[i])]
               ELSE @]

\* AITankClient._handle_message: the client after it handled the record
HandleMessage(client, message) ==
  [client EXCEPT
     !.owned_tanks = IF message.type = "joined" THEN message.tanks ELSE @,
     !.state = IF message.type = "state"
               THEN [i \in 1..Len(message.tanks) |-> FromDict(message.tanks[i])]
               ELSE @]

----------------------------------------------------------------------------
(* A tank driven directly: one method of one Tank of the roster is called, *)
(* with any elapsed time of DtChoices, in any order.                       *)

\* the tank after the call of one method
MethodResult(op, t, ms) ==
  CASE op = "move_forward" -> MoveForward(t, ms)
    [] op = "move_backward" -> MoveBackward(t, ms)
    [] op = "rotate_left" -> RotateLeft(t, ms)
    [] op = "rotate_right" -> RotateRight(t, ms)
    [] op = "rotate_turret_left" -> RotateTurretLeft(t, ms)
    [] op = "rotate_turret_right" -> RotateTurretRight(t, ms)
    [] op = "fire" -> Fire(t)
    [] op = "update" -> Update(t, ms)

Call(op, team, ms) ==
  /\ called.n < MaxCalls
  /\ team_tanks' = [team_tanks EXCEPT ![team][1] = MethodResult(op, @, ms)]
  /\ called' = [op |-> op, team |-> team, index |-> 1, ms |-> ms,
                before |-> team_tanks[team][1], n |-> called.n + 1]
  /\ UNCHANGED <<clients, controls, last_broadcast, previous_time, dt, pc,
                 received, sent, handled, ai, net, probe>>

CallMove(team, ms) == Call("move_forward", team, ms) \/ Call("move_backward", team, ms)
CallRotate(team, ms) == Call("rotate_left", team, ms) \/ Call("rotate_right", team, ms)
CallRotateTurret(team, ms) ==
  Call("rotate_turret_left", team, ms) \/ Call("rotate_turret_right", team, ms)
CallFire(team) == Call("fire", team, 0)
CallUpdate(team, ms) == Call("update", team, ms)

TankNext ==
  \/ \E team \in TeamSet, ms \in DtChoices : CallMove(team, ms)
  \/ \E team \in TeamSet, ms \in DtChoices : CallRotate(team, ms)
  \/ \E team \in TeamSet, ms \in DtChoices : CallRotateTurret(team, ms)
  \/ \E team \in TeamSet : CallFire(team)
  \/ \E team \in TeamSet, ms \in DtChoices : CallUpdate(team, ms)

TankSpec == Init /\ [][TankNext]_vars

----------------------------------------------------------------------------
(* The pure functions applied to arguments drawn from small sets: `probe`  *)
(* keeps the arguments and the result of the last application.             *)

\* the longest list of enemies handed to _select_target
MaxEnemies == 3

\* the tanks of the AI client's team (enemy) and of the other as TankStates
FriendlyAt(x, y, angle, turret_angle) ==
  ToState([EnemyTank(0) EXCEPT !.x = x, !.y = y, !.angle = angle,
                               !.turret_angle = turret_angle], "enemy")

OpponentAt(index, x, y) ==
  ToState([PlayerTank(index) EXCEPT !.x = x, !.y = y], "player")

\* the lists of opponents handed to _select_target: opponent k of a list is
\* the player tank k - 1, at one of six positions
EnemyLists ==
  LET Points == {<<10000, 0>>, <<3000, 0>>, <<0, 3000>>, <<-3000, 0>>,
                 <<3000, 4000>>, <<0, 5000>>}
  IN  UNION {{[k \in 1..n |-> OpponentAt(k - 1, ps[k][1], ps[k][2])] :
                ps \in [1..n -> Points]} : n \in 1..MaxEnemies}

\* the TankStates that are serialised
TankStates ==
  {[identifier |-> id, team |-> team, x |-> x, y |-> 100000,
    angle |-> angle, turret_angle |-> 359,
    color |-> color, turret_color |-> turret_color,
    is_player |-> is_player, projectiles |-> projectiles] :
     id \in {"player_0", "enemy_3", ""}, team \in TeamSet, x \in {0, 100500},
     angle \in {0, 270}, color \in {PLAYER_TANK_COLOR, ENEMY_TANK_COLOR},
     turret_color \in {TURRET_COLOR, ENEMY_TANK_COLOR}, is_player \in BOOLEAN,
     projectiles \in {<<>>, <<[x |-> 1500, y |-> 0]>>,
                      <<[x |-> 1500, y |-> 0], [x |-> 0, y |-> 720000]>>}}

\* what an application of a function leaves alone
ServerUntouched ==
  UNCHANGED <<clients, team_tanks, controls, last_broadcast, previous_time, dt,
              pc, received, sent, handled, called, ai, net>>

\* Tank.move_forward of a tank at a position inside, on or outside the
\* bounds of the playfield, hull at one of six angles
ProbeMoveForward ==
  /\ probe.op = "none"
  /\ \E x \in {0, 60000, 100000, 640000, 1200000, 1220000},
        y \in {60000, 100000, 360000, 650000},
        angle \in {0, 45, 90, 180, 225, 270},
        ms \in {TickMs, 1000} :
       LET t == [PlayerTank(0) EXCEPT !.x = x, !.y = y, !.angle = angle]
       IN  probe' = [op |-> "move_forward", tank |-> t, ms |-> ms,
                     result |-> MoveForward(t, ms)]
  /\ ServerUntouched

ProbeSelectTarget ==
  /\ probe.op = "none"
  /\ \E enemies \in EnemyLists, f \in {<<0, 0>>, <<3000, 0>>} :
       probe' = [op |-> "select_target",
                 friendly |-> FriendlyAt(f[1], f[2], 90, 90), enemies |-> enemies,
                 result |-> SelectTarget(FriendlyAt(f[1], f[2], 90, 90), enemies)]
  /\ ServerUntouched

\* _compute_command for a target on the friendly tank, on an axis or on a
\* diagonal through it, every whole turret angle, and hull angles on and
\* next to the bounds of the hull deadband around the bearings 0 and 90
ProbeComputeCommand ==
  /\ probe.op = "none"
  /\ \E d \in {<<0, 0>>, <<10000, 0>>, <<10000, 10000>>, <<0, 10000>>,
               <<-10000, 10000>>, <<-10000, 0>>, <<-10000, -10000>>,
               <<0, -10000>>, <<10000, -10000>>},
        turret_angle \in 0..359,
        angle \in {0, 10, 11, 79, 80, 90, 100, 101, 349, 350} :
       probe' = [op |-> "compute_command",
                 friendly |-> FriendlyAt(500000, 300000, angle, turret_angle),
                 target |-> OpponentAt(0, 500000 + d[1], 300000 + d[2]),
                 result |->
                   ComputeCommand(FriendlyAt(500000, 300000, angle, turret_angle),
                                  OpponentAt(0, 500000 + d[1], 300000 + d[2]))]
  /\ ServerUntouched

ProbeRoundTrip ==
  /\ probe.op = "none"
  /\ \E st \in TankStates :
       probe' = [op |-> "round_trip", state |-> st, dict |-> ToDict(st),
                 result |-> FromDict(ToDict(st))]
  /\ ServerUntouched

\* one of the four rotations of a tank whose two angles are the same whole
\* number of degrees, with an elapsed time of 0.625, 0.75 or 0.875 seconds
\* or one of the three next doubles above it
ProbeRotate ==
  /\ probe.op = "none"
  /\ \E op \in {"rotate_left", "rotate_right", "rotate_turret_left",
                 "rotate_turret_right"},
        deg \in {0, 75, 90, 100, 105, 120, 140, 270, 300},
        ms \in {625, 750, 875},
        ulps \in 0..3 :
       LET t == [EnemyTank(0) EXCEPT !.angle = [deg |-> deg, q |-> 0],
                                     !.turret_angle = [deg |-> deg, q |-> 0]]
           elapsed == [ms |-> ms, ulps |-> ulps]
       IN  probe' = [op |-> op, tank |-> t, elapsed |-> elapsed,
                     result |-> FloatRotate(op, t, elapsed)]
  /\ ServerUntouched

\* Tank.update of a tank that holds up to two projectiles: in the middle of
\* the screen, about to leave it to the right or over the top, about to
\* arrive on its right edge, and with a lifetime that ends with this update
\* or just after it
ProbeUpdate ==
  /\ probe.op = "none"
  /\ \E ps \in UNION {[1..n -> {<<640000, 360000, 500000, 0, 600>>,
                                 <<1279000, 360000, 500000, 0, 600>>,
                                 <<1180000, 360000, 500000, 0, 600>>,
                                 <<640000, 50000, 0, -500000, 400>>,
                                 <<640000, 360000, 0, 500000, TickMs>>,
                                 <<640000, 360000, 0, 500000, TickMs + 1>>}] :
                         n \in 0..2},
        cooldown \in {0, reload_time_ms},
        ms \in {0, TickMs} :
       LET t == [PlayerTank(0) EXCEPT
                   !.cooldown = cooldown,
                   !.projectiles =
                      [i \in 1..Len(ps) |->
                         [x |-> ps[i][1], y |-> ps[i][2], vx |-> ps[i][3],
                          vy |-> ps[i][4], lifetime |-> ps[i][5]]]]
       IN  probe' = [op |-> "update", tank |-> t, ms |-> ms, result |-> Update(t, ms)]
  /\ ServerUntouched

\* the state record of a broadcast at time `timestamp` in which the enemy
\* tank 0 has its turret at `turret_angle` and the player tank 0 stands
\* straight below it, at the bearing 90
SnapshotOf(timestamp, turret_angle) ==
  [type |-> "state",
   timestamp |-> timestamp,
   tanks |-> <<ToDict(FriendlyAt(EnemyTank(0).x, EnemyTank(0).y, 90, turret_angle)),
               ToDict(OpponentAt(0, PlayerTank(0).x, PlayerTank(0).y))>>]

\* a client that handled its joined reply drains two state records, in the
\* order of their arrival, which is any order of their timestamps, and goes
\* on to _send_commands
ProbeHandleMessages ==
  /\ probe.op = "none"
  /\ \E t1 \in {TickMs, 2 * TickMs, 3 * TickMs},
        t2 \in {TickMs, 2 * TickMs, 3 * TickMs},
        turret1 \in {60, 84, 85, 90, 95, 96, 120},
        turret2 \in {60, 84, 85, 90, 95, 96, 120} :
       LET joined == [type |-> "joined", team |-> "enemy", tanks |-> TankIdsOf("enemy")]
           first == SnapshotOf(t1, turret1)
           second == SnapshotOf(t2, turret2)
       IN  /\ ai' = [HandleMessage(HandleMessage(HandleMessage(ai, joined), first),
                                   second)
                       EXCEPT !.pc = "send", !.last = "state"]
           /\ probe' = [op |-> "handle_messages", first |-> first, second |-> second]
  /\ UNCHANGED <<clients, team_tanks, controls, last_broadcast, previous_time, dt,
                 pc, received, sent, handled, called, net>>

FuncNext ==
  \/ ProbeHandleMessages
  \/ ProbeMoveForward
  \/ ProbeRotate
  \/ ProbeUpdate
  \/ ProbeSelectTarget
  \/ ProbeComputeCommand
  \/ ProbeRoundTrip

FuncSpec == Init /\ [][FuncNext]_vars

----------------------------------------------------------------------------
(* The server, one AI client and the network between them, running for     *)
(* ever.  Times are kept relative to the clock reading of the running      *)
(* iteration, which stays 0: the sleep moves last_broadcast and every      *)
(* last_seen back by its length, which the code's comparisons of time      *)
(* differences cannot tell from the clock moving forward.  The client runs *)
(* one iteration of its loop in every sleep of the server.                 *)

\* datagrams the network may lose in one run
MaxLost == 1
\* datagrams at the server's socket when a stranger's datagram can still arrive
MaxPending == 1

\* the address of the AI client's socket; "a2" is a stranger
AiAddress == "a1"

\* the network hands the datagram of `msgs` (at most one) to the queue
\* `field` of the sockets `n`, or loses it
Carry(n, field, msgs) ==
  IF msgs = {} THEN {n}
  ELSE {[n EXCEPT ![field] = Append(@, CHOOSE m \in msgs : TRUE)]}
         \cup (IF n.lost < MaxLost THEN {[n EXCEPT !.lost = @ + 1]} ELSE {})

\* what reaches the client's socket of the datagrams the server step sent:
\* a datagram arrives behind those pending there or, having overtaken them,
\* in front of them, or is lost
ToClient(n) ==
  Carry(n, "ai_inbox", {m.payload : m \in {x \in sent' : x.to = AiAddress}})
    \cup {[n EXCEPT !.ai_inbox = <<m.payload>> \o @] :
            m \in {x \in sent' : x.to = AiAddress}}

\* AITankClient.__init__ with _send_join, client_ai.py:14-35
AiJoin ==
  /\ ai.pc = "init"
  /\ ai' = [ai EXCEPT !.pc = "recv"]
  /\ net' \in Carry(net, "inbox",
                    {[from |-> AiAddress,
                      msg |-> [kind |-> "join", team |-> JStr("enemy")]]})
  /\ UNCHANGED <<clients, team_tanks, controls, last_broadcast, previous_time, dt,
                 pc, received, sent, handled, called, probe>>

\* AITankClient._receive_messages, one datagram, with _handle_message
AiReceive ==
  /\ pc = "sleep"
  /\ ai.pc = "recv"
  /\ net.ai_inbox # <<>>
  /\ LET message == Head(net.ai_inbox) IN
       ai' = [HandleMessage(ai, message) EXCEPT !.last = message.type]
  /\ net' = [net EXCEPT !.ai_inbox = Tail(@)]
  /\ UNCHANGED <<clients, team_tanks, controls, last_broadcast, previous_time, dt,
                 pc, received, sent, handled, called, probe>>

\* recv raises BlockingIOError, client_ai.py:52-53
AiDrainDone ==
  /\ pc = "sleep"
  /\ ai.pc = "recv"
  /\ net.ai_inbox = <<>>
  /\ ai' = [ai EXCEPT !.pc = "send"]
  /\ UNCHANGED <<clients, team_tanks, controls, last_broadcast, previous_time, dt,
                 pc, received, sent, handled, called, net, probe>>

\* json.dumps of a command: true and false
JsonOfCommand(command) ==
  JObj([name \in DOMAIN command |-> IF command[name] THEN "true" ELSE "false"])

\* AiCommands of a loop that ends after the first friendly tank
AiCommandsFirstOnly(friendlies, enemies) ==
  [id \in {friendlies[1].identifier} |->
     JsonOfCommand(ComputeCommand(friendlies[1], SelectTarget(friendlies[1], enemies)))]

\* the dictionary built by the loop of client_ai.py:80-84: the entry of an
\* identifier is the command of the last friendly tank that has it.  The
\* tank and its target are bound as values, to be computed once.
AiCommands(friendlies, enemies) ==
  [id \in {friendlies[i].identifier : i \in 1..Len(friendlies)} |->
     CHOOSE command \in
       UNION {{JsonOfCommand(ComputeCommand(friendlies[i], target)) :
                 target \in {SelectTarget(friendlies[i], enemies)}} :
                i \in {k \in 1..Len(friendlies) :
                         /\ friendlies[k].identifier = id
                         /\ \A j \in (k + 1)..Len(friendlies) :
                              friendlies[j].identifier # id}} : TRUE]

\* the datagram _send_commands sends, if it sends one: client_ai.py:72-87
AiInputs ==
  LET owned == {ai.owned_tanks[i] : i \in 1..Len(ai.owned_tanks)}
      IsFriendly(tank) == tank.team = "enemy" /\ tank.identifier \in owned
      IsEnemy(tank) == tank.team # "enemy"
  IN  IF ai.owned_tanks = <<>> \/ ai.state = <<>> THEN {}
      ELSE {[from |-> AiAddress,
             msg |-> [kind |-> "input", team |-> JStr("enemy"),
                      commands |-> JObj(AiCommands(friendlies, enemies))]] :
              friendlies \in {SelectSeq(ai.state, IsFriendly)} \ {<<>>},
              enemies \in {SelectSeq(ai.state, IsEnemy)} \ {<<>>}}

\* AiSendCommands of a client that joins again while it owns no tank
AiSendCommandsRejoins ==
  /\ pc = "sleep"
  /\ ai.pc = "send"
  /\ ai' = [ai EXCEPT !.pc = "sleep", !.last = "none"]
  /\ net' \in Carry(net, "inbox",
                    IF ai.owned_tanks = <<>>
                    THEN {[from |-> AiAddress,
                           msg |-> [kind |-> "join", team |-> JStr("enemy")]]}
                    ELSE AiInputs)
  /\ UNCHANGED <<clients, team_tanks, controls, last_broadcast, previous_time, dt,
                 pc, received, sent, handled, called, probe>>

\* AITankClient._send_commands, and the sleep that ends the iteration
AiSendCommands ==
  /\ pc = "sleep"
  /\ ai.pc = "send"
  /\ ai' = [ai EXCEPT !.pc = "sleep", !.last = "none"]
  /\ net' \in Carry(net, "inbox", AiInputs)
  /\ UNCHANGED <<clients, team_tanks, controls, last_broadcast, previous_time, dt,
                 pc, received, sent, handled, called, probe>>

\* a stranger's datagram that is no JSON reaches the server's socket
StrayArrives ==
  /\ Len(net.inbox) < MaxPending
  /\ net' = [net EXCEPT !.inbox = Append(@, [from |-> "a2", msg |-> [kind |-> "badjson"]])]
  /\ UNCHANGED <<clients, team_tanks, controls, last_broadcast, previous_time, dt,
                 pc, received, sent, handled, called, ai, probe>>

\* one turn of the drain loop: recvfrom returns the first pending datagram
NetReceive ==
  /\ pc = "recv"
  /\ net.inbox # <<>>
  /\ received' = [from |-> Head(net.inbox).from, msg |-> Head(net.inbox).msg,
                  dup |-> FALSE, seen |-> -1]
  /\ Dispatch(Head(net.inbox).msg, Head(net.inbox).from)
  /\ net' \in ToClient([net EXCEPT !.inbox = Tail(@)])
  /\ UNCHANGED <<handled, called, ai, probe>>

\* recvfrom raises BlockingIOError: nothing is pending
NetDrainDone ==
  /\ net.inbox = <<>>
  /\ DrainDone

\* the broadcast, its snapshots on their way to the client
NetBroadcast ==
  /\ Broadcast
  /\ net' \in ToClient(net)
  /\ UNCHANGED <<called, ai, probe>>

\* the sleep of one iteration, which lasts to the end of the tick period,
\* and the clock reading of the next, server.py:90-92 and 78-80
NetSleep ==
  /\ pc = "sleep"
  /\ ai.pc \in {"init", "sleep"}
  /\ dt' = TickMs
  /\ last_broadcast' = last_broadcast - TickMs
  /\ clients' = [a \in DOMAIN clients |->
                   [clients[a] EXCEPT !.last_seen = @ - TickMs]]
  /\ ai' = [ai EXCEPT !.pc = IF @ = "init" THEN @ ELSE "recv"]
  /\ pc' = "recv"
  /\ received' = NothingReceived
  /\ sent' = {}
  /\ UNCHANGED <<team_tanks, controls, previous_time, handled, called, net, probe>>

\* the steps of the server process and of the client process
ServerStep ==
  \/ NetReceive
  \/ NetDrainDone
  \/ ApplyControls
  \/ UpdateWorld
  \/ NetBroadcast
  \/ SkipBroadcast
  \/ NetSleep

AiStep ==
  \/ AiJoin
  \/ AiReceive
  \/ AiDrainDone
  \/ AiSendCommands

NetNext ==
  \/ ServerStep
  \/ AiStep
  \/ StrayArrives

\* each of the two processes keeps running
NetSpec == Init /\ [][NetNext]_vars /\ WF_vars(ServerStep) /\ WF_vars(AiStep)

----------------------------------------------------------------------------
(* The closed loop at a tick rate at which a turret turns less than the    *)
(* width of the AI client's deadband in one tick.  The client decides once *)
(* per tick of the server, as in NetSpec.  A second client, of a person    *)
(* who joins team enemy, may turn the turret of enemy_0 until the first    *)
(* input of the AI client replaces its command; it sends nothing after.    *)

\* config.SERVER_TICK_RATE and config.AI_UPDATE_RATE of this loop
AIM_TICK_RATE == 20

AimTickMs == 1000 \div AIM_TICK_RATE

\* the address of the person's client
HumanAddress == "a2"

\* the person's client joins team enemy
HumanJoins ==
  /\ HumanAddress \notin DOMAIN clients
  /\ DOMAIN controls.enemy = {}
  /\ net.inbox = <<>>
  /\ net' = [net EXCEPT
               !.inbox = Append(@, [from |-> HumanAddress,
                                    msg |-> [kind |-> "join", team |-> JStr("enemy")]])]
  /\ UNCHANGED <<clients, team_tanks, controls, last_broadcast, previous_time, dt,
                 pc, received, sent, handled, called, ai, probe>>

\* the person's client asks the turret of enemy_0 to turn right
HumanTurnsTurret ==
  /\ HumanAddress \in DOMAIN clients
  /\ DOMAIN controls.enemy = {}
  /\ net.inbox = <<>>
  /\ net' = [net EXCEPT
               !.inbox = Append(@, [from |-> HumanAddress,
                                    msg |-> [kind |-> "input", team |-> JStr("enemy"),
                                             commands |-> JObj("enemy_0" :> CtlTurret)]])]
  /\ UNCHANGED <<clients, team_tanks, controls, last_broadcast, previous_time, dt,
                 pc, received, sent, handled, called, ai, probe>>

\* the sleep of one iteration and the clock reading of the next, as
\* NetSleep, with the tick period of this loop
AimSleep ==
  /\ pc = "sleep"
  /\ ai.pc \in {"init", "sleep"}
  /\ dt' = AimTickMs
  /\ last_broadcast' = last_broadcast - AimTickMs
  /\ clients' = [a \in DOMAIN clients |->
                   [clients[a] EXCEPT !.last_seen = @ - AimTickMs]]
  /\ ai' = [ai EXCEPT !.pc = IF @ = "init" THEN @ ELSE "recv"]
  /\ pc' = "recv"
  /\ received' = NothingReceived
  /\ sent' = {}
  /\ UNCHANGED <<team_tanks, controls, previous_time, handled, called, net, probe>>

AimServerStep ==
  \/ NetReceive
  \/ NetDrainDone
  \/ ApplyControls
  \/ UpdateWorld
  \/ NetBroadcast
  \/ SkipBroadcast
  \/ AimSleep

AimNext ==
  \/ AimServerStep
  \/ AiStep
  \/ HumanJoins
  \/ HumanTurnsTurret

\* each of the two processes keeps running
AimSpec == Init /\ [][AimNext]_vars /\ WF_vars(AimServerStep) /\ WF_vars(AiStep)

Next ==
  \/ \E d \in Datagrams, a \in Addresses : Receive(d, a)
  \/ DrainDone
  \/ ApplyControls
  \/ UpdateWorld
  \/ BroadcastState
  \/ SkipBroadcast
  \/ \E ticks \in Stalls : Sleep(ticks)

Spec == Init /\ [][Next]_vars

----------------------------------------------------------------------------
(* The claims.  A step that handles a datagram is recognised by what it    *)
(* leaves behind: the count of handled datagrams goes up by one and        *)
(* `received` holds the datagram and its sender.                           *)

Handles(kind) == handled' = handled + 1 /\ received'.msg.kind = kind

ServerStateUnchanged ==
  /\ clients' = clients
  /\ controls' = controls
  /\ team_tanks' = team_tanks
  /\ last_broadcast' = last_broadcast
  /\ pc' = pc

ErrorReplyTo(a) ==
  /\ Cardinality(sent') = 1
  /\ \A m \in sent' : m.to = a /\ m.payload.type = "error"

\* the identifiers of the tanks of one team
IdSetOf(team) == {team_tanks[team][i].identifier : i \in 1..Len(team_tanks[team])}

OtherTeam(team) == IF team = "player" THEN "enemy" ELSE "player"

\* C1: a join that names a team other than the two known ones is answered
\* with one error record to the sender, and the registry (also a session the
\* sender already holds), the command buffer and the tanks stay as they were.
C1_UnknownTeamJoin ==
  [][(/\ Handles("join")
      /\ received'.msg.team.t = "str"
      /\ received'.msg.team.s \notin {"player", "enemy"})
     => (ServerStateUnchanged /\ ErrorReplyTo(received'.from))]_vars

\* C1 witness: an "alien" join from an address that holds a session was
\* answered with an error
C1_Witness ==
  /\ received.msg.kind = "join"
  /\ received.msg.team = JStr("alien")
  /\ received.from \in DOMAIN clients
  /\ \E m \in sent : m.to = received.from /\ m.payload.type = "error"

\* C2: a join that names player or enemy leaves exactly one session under
\* the sender's address, of that team, created or replaced, leaves the other
\* sessions alone, and answers the sender with a joined record that lists
\* the identifiers of all tanks of that team and of no other.
C2_ValidJoin ==
  [][(/\ Handles("join")
      /\ received'.msg.team.t = "str"
      /\ received'.msg.team.s \in {"player", "enemy"})
     => LET a == received'.from
            team == received'.msg.team.s
        IN  /\ DOMAIN clients' = DOMAIN clients \cup {a}
            /\ Cardinality(DOMAIN clients') =
                 Cardinality(DOMAIN clients) + (IF a \in DOMAIN clients THEN 0 ELSE 1)
            /\ clients'[a].team = team
            /\ clients'[a].address = a
            /\ \A x \in DOMAIN clients \ {a} : clients'[x] = clients[x]
            /\ Cardinality(sent') = 1
            /\ \A m \in sent' :
                 /\ m.to = a
                 /\ m.payload.type = "joined"
                 /\ m.payload.team = team
                 /\ Len(m.payload.tanks) = Cardinality(IdSetOf(team))
                 /\ {m.payload.tanks[i] : i \in 1..Len(m.payload.tanks)} = IdSetOf(team)
                 /\ \A i \in 1..Len(m.payload.tanks) :
                      m.payload.tanks[i] \notin IdSetOf(OtherTeam(team))]_vars

\* C2 witness: before any sweep could run, the only session is an enemy
\* session just joined by an address whose earlier player session had
\* written to the player command buffer: the session was replaced
C2_Witness ==
  /\ received.msg.kind = "join"
  /\ received.msg.team = JStr("enemy")
  /\ previous_time = 0
  /\ DOMAIN clients = {received.from}
  /\ clients[received.from].team = "enemy"
  /\ DOMAIN controls.player # {}
  /\ \E m \in sent : m.payload.type = "joined" /\ Len(m.payload.tanks) = TanksPerTeam

\* C3: an input whose sender has no session, or whose claimed team is not
\* the team of the sender's session, is dropped: nothing is sent, and the
\* registry with every last-seen time, the command buffer and the tanks stay
\* as they were.
C3_InputDropped ==
  [][(/\ Handles("input")
      /\ ~(/\ received'.from \in DOMAIN clients
           /\ received'.msg.team.t = "str"
           /\ received'.msg.team.s = clients[received'.from].team))
     => (ServerStateUnchanged /\ sent' = {})]_vars

\* C3 witness: an input that claims the other team than the one of its
\* sender's session has been handled
C3_Witness ==
  /\ received.msg.kind = "input"
  /\ received.from \in DOMAIN clients
  /\ received.msg.team.s # clients[received.from].team
  /\ pc = "recv"
  /\ sent = {}

\* what bool(control.get(name, False)) is for the controls the network sends
ExpectedIntent(control, name) ==
  name \in DOMAIN control /\ control[name] \in {"true", "1"}

WellFormedInput(d) ==
  /\ d.commands.t = "obj"
  /\ \A id \in DOMAIN d.commands.o : d.commands.o[id].t = "obj"

\* the last step handled an input that passed both guards and was well formed
InputWasAccepted ==
  /\ received.msg.kind = "input"
  /\ received.from \in DOMAIN clients
  /\ received.msg.team = JStr(clients[received.from].team)
  /\ WellFormedInput(received.msg)

\* C4: after an accepted input the command buffer entry of every tank it
\* names holds exactly the seven intents, each true only if the input gave
\* it a true value: nothing of the entry stored before survives.
C4_EntryOverwritten ==
  InputWasAccepted =>
    \A id \in DOMAIN received.msg.commands.o :
      LET entry == controls[clients[received.from].team][id]
          control == received.msg.commands.o[id].o
      IN  /\ DOMAIN entry = {IntentNames[i] : i \in 1..Len(IntentNames)}
          /\ \A name \in DOMAIN entry : entry[name] = ExpectedIntent(control, name)

\* C4 witness: an empty command for player_0 was accepted while the tank's
\* cooldown still runs from the fire command stored before
C4_Witness ==
  /\ InputWasAccepted
  /\ received.msg.commands = JObj("player_0" :> CtlEmpty)
  /\ clients[received.from].team = "player"
  /\ team_tanks.player[1].cooldown > 0
  /\ controls.player["player_0"].fire = FALSE

\* C5: a broadcast removes every session whose last-seen age exceeds the
\* timeout and sends it nothing; a snapshot only ever goes to an address that
\* holds a session before and after the step, and only a join of an address
\* brings it back into the registry; right after a broadcast no session is
\* over the timeout, so a second sweep would remove nothing.
C5_Sweep ==
  [][/\ (pc = "bcast" /\ last_broadcast' = previous_time /\ BroadcastIsDue)
          => /\ \A a \in DOMAIN clients :
                  previous_time - clients[a].last_seen > CLIENT_TIMEOUT_MS
                    => /\ a \notin DOMAIN clients'
                       /\ \A m \in sent' : m.to # a
             /\ \A a \in DOMAIN clients' :
                  previous_time - clients'[a].last_seen <= CLIENT_TIMEOUT_MS
             /\ \A a \in DOMAIN clients :
                  previous_time - clients[a].last_seen <= CLIENT_TIMEOUT_MS
                    => a \in DOMAIN clients' /\ clients'[a] = clients[a]
     /\ \A m \in sent' :
          m.payload.type = "state" => m.to \in DOMAIN clients \cap DOMAIN clients'
     /\ \A a \in DOMAIN clients' \ DOMAIN clients :
          Handles("join") /\ received'.from = a]_vars

\* C5 witness: a broadcast has just run, an address that once wrote to the
\* player command buffer holds no session any more, and nothing was sent
C5_Witness ==
  /\ pc = "sleep"
  /\ last_broadcast = previous_time
  /\ previous_time > 0
  /\ DOMAIN clients = {}
  /\ DOMAIN controls.player # {}
  /\ sent = {}

\* a datagram the protocol does not allow
Malformed(d) ==
  \/ d.kind \in {"badutf8", "badjson", "nonobject"}
  \/ d.kind = "join" /\ d.team.t \notin {"str", "absent"}
  \/ d.kind = "input" /\ ~WellFormedInput(d)

\* C6: every malformed datagram (bytes that are not UTF-8, text that is not
\* JSON, JSON that is not an object, a join whose team is not a string, an
\* input whose commands or per-tank control is not an object) is dropped:
\* nothing is sent, no state changes and the loop keeps running.
C6_MalformedDropped ==
  [][(handled' = handled + 1 /\ Malformed(received'.msg))
     => (ServerStateUnchanged /\ sent' = {})]_vars

\* C7: the tank identifiers with an entry in the command buffer all belong
\* to the roster, and there are no more entries than tanks.
C7_BufferWithinRoster ==
  /\ \A team \in DOMAIN controls :
       DOMAIN controls[team] \subseteq IdSetOf("player") \cup IdSetOf("enemy")
  /\ Cardinality(DOMAIN controls.player) + Cardinality(DOMAIN controls.enemy)
       <= Len(team_tanks.player) + Len(team_tanks.enemy)

\* C8: handling an input from a session of one team leaves the intents that
\* _apply_controls looks up for every tank of the other team as they were,
\* also when the input names tanks of the other team.
C8_OtherTeamUntouched ==
  [][(Handles("input") /\ received'.from \in DOMAIN clients)
     => \A other \in {"player", "enemy"} :
          other # clients[received'.from].team =>
            \A id \in IdSetOf(other) :
              ControlFor(other, id)' = ControlFor(other, id)]_vars

\* C8 witness: an enemy session's input that names player_0 was accepted
\* and stored, and player_0 still has no intents of its own
C8_Witness ==
  /\ InputWasAccepted
  /\ clients[received.from].team = "enemy"
  /\ "player_0" \in DOMAIN received.msg.commands.o
  /\ "player_0" \in DOMAIN controls.enemy
  /\ controls.enemy["player_0"].fire
  /\ "player_0" \notin DOMAIN controls.player

\* the snapshot entry that describes tank t of the given team
Describes(entry, t, team) ==
  /\ entry.id = t.identifier
  /\ entry.team = team
  /\ entry.x = t.x /\ entry.y = t.y
  /\ entry.angle = t.angle /\ entry.turret_angle = t.turret_angle
  /\ Len(entry.projectiles) = Len(t.projectiles)

\* C9: every snapshot sent holds one entry for each tank of both teams,
\* tagged with the tank's own team, and all snapshots of one broadcast are
\* the same whatever the team of the receiving session.
C9_FullSnapshot ==
  /\ \A m \in sent :
       m.payload.type = "state" =>
         /\ Len(m.payload.tanks) = Len(team_tanks.player) + Len(team_tanks.enemy)
         /\ \A team \in {"player", "enemy"} :
              \A i \in 1..Len(team_tanks[team]) :
                Cardinality({k \in 1..Len(m.payload.tanks) :
                               Describes(m.payload.tanks[k], team_tanks[team][i], team)}) = 1
  /\ \A m1, m2 \in sent :
       (m1.payload.type = "state" /\ m2.payload.type = "state")
         => m1.payload = m2.payload

\* C9 witness: one broadcast sent its snapshot to a player session and to an
\* enemy session
C9_Witness ==
  \E m1, m2 \in sent :
    /\ m1.payload.type = "state" /\ m2.payload.type = "state"
    /\ m1.to \in DOMAIN clients /\ m2.to \in DOMAIN clients
    /\ clients[m1.to].team = "player"
    /\ clients[m2.to].team = "enemy"

\* C10: Tank.fire with a cooldown above 0 leaves the tank as it was, no
\* projectile added and the cooldown unchanged; with a cooldown of 0 it adds
\* exactly one projectile after the ones the tank had and sets the cooldown
\* to the reload time.
C10_Fire ==
  called.op = "fire" =>
    LET before == called.before
        after == team_tanks[called.team][called.index]
    IN  /\ before.cooldown > 0 => after = before
        /\ before.cooldown = 0 =>
             /\ Len(after.projectiles) = Len(before.projectiles) + 1
             /\ SubSeq(after.projectiles, 1, Len(before.projectiles)) = before.projectiles
             /\ after.cooldown = reload_time_ms

\* C10 witness: fire was called while the cooldown of an earlier shot ran
C10_Witness ==
  /\ called.op = "fire"
  /\ called.before.cooldown > 0
  /\ Len(called.before.projectiles) = 1
  /\ Len(team_tanks[called.team][called.index].projectiles) = 1

\* the entries of the command buffer that the input of the step does not name
UnnamedEntriesKept ==
  \A team \in DOMAIN controls :
    \A id \in DOMAIN controls[team] :
      (~(/\ received'.from \in DOMAIN clients
         /\ team = clients[received'.from].team
         /\ id \in DOMAIN received'.msg.commands.o))
        => /\ id \in DOMAIN controls'[team]
           /\ controls'[team][id] = controls[team][id]

\* C11: an input handled right after the same datagram from the same sender
\* leaves the command buffer exactly as the first delivery left it; an input,
\* whenever it arrives, leaves the entries of the tanks it does not name as
\* they were; and handling an input removes no session and lowers no
\* session's last-seen time.
C11_DuplicateInput ==
  [][Handles("input")
     => /\ received'.dup => controls' = controls
        /\ UnnamedEntriesKept
        /\ \A a \in DOMAIN clients :
             /\ a \in DOMAIN clients'
             /\ clients'[a].last_seen >= clients[a].last_seen]_vars

\* C11 witness: the fire command for player_0 was accepted twice in a row
C11_Witness ==
  /\ InputWasAccepted
  /\ received.dup
  /\ clients[received.from].team = "player"
  /\ received.msg.commands = JObj("player_0" :> CtlFire)
  /\ controls.player["player_0"].fire

\* the step handled an input that passed both guards of _handle_input
AcceptsInput ==
  /\ Handles("input")
  /\ received'.from \in DOMAIN clients
  /\ received'.msg.team = JStr(clients[received'.from].team)
  /\ pc' # "crashed"

\* C17: no step lowers the last-seen time of a session that it keeps; an
\* accepted input sets the sender's last-seen time to the current time, and
\* so does a join, also a re-join from an address that holds a session.
C17_LastSeenMonotone ==
  [][/\ \A a \in DOMAIN clients \cap DOMAIN clients' :
          clients'[a].last_seen >= clients[a].last_seen
     /\ AcceptsInput => clients'[received'.from].last_seen = Time
     /\ (/\ Handles("join")
         /\ received'.msg.team \in {JStr("player"), JStr("enemy")})
          => clients'[received'.from].last_seen = Time]_vars

\* C17 witness: an accepted input raised the last-seen time of a session
\* that was created in an earlier iteration
C17_Witness ==
  /\ InputWasAccepted
  /\ received.seen >= 0
  /\ received.seen < clients[received.from].last_seen
  /\ clients[received.from].last_seen = previous_time

\* the phases of one iteration of TankGameServer.run, in their order
Phases == <<"recv", "apply", "update", "bcast", "sleep">>

\* the step goes from one phase to the next one of the iteration
NextPhase ==
  \E i \in 1..Len(Phases) : pc = Phases[i] /\ pc' = Phases[(i % Len(Phases)) + 1]

\* C18: the phases follow each other as drain, apply, update, broadcast or
\* not, sleep; the command buffer changes only during the drain and the clock
\* only with the sleep, so the apply phase gives every tank the intents the
\* drain of the same iteration left for it, with the elapsed time of the
\* iteration; the tanks change only in the apply and the update phase, and a
\* snapshot is sent only after both.
C18_PhaseOrder ==
  [][/\ pc' # pc => (NextPhase \/ (pc = "recv" /\ pc' = "crashed"))
     /\ controls' # controls => (pc = "recv" /\ pc' = "recv")
     /\ (previous_time' # previous_time \/ dt' # dt) => pc = "sleep"
     /\ team_tanks' # team_tanks => pc \in {"apply", "update"}
     /\ pc = "apply" =>
          \A team \in DOMAIN team_tanks :
            \A i \in 1..Len(team_tanks[team]) :
              team_tanks'[team][i] =
                ApplyControl(team_tanks[team][i],
                             ControlFor(team, team_tanks[team][i].identifier), dt)
     /\ pc = "update" =>
          \A team \in DOMAIN team_tanks :
            \A i \in 1..Len(team_tanks[team]) :
              team_tanks'[team][i] = Update(team_tanks[team][i], dt)
     /\ (\E m \in sent' : m.payload.type = "state") => pc = "bcast"]_vars

\* C18 witness: in the first iteration a fire command for player_0 was
\* accepted by the drain and the apply phase of that iteration has fired
C18_Witness ==
  /\ pc = "update"
  /\ previous_time = 0
  /\ "player_0" \in DOMAIN controls.player
  /\ controls.player["player_0"].fire
  /\ team_tanks.player[1].cooldown = reload_time_ms
  /\ Len(team_tanks.player[1].projectiles) = 1

\* C19: the broadcast phase sends snapshots, sweeps and resets the timer to
\* the time of the iteration exactly when that time is at least
\* 1/broadcast_rate after the last broadcast, and otherwise sends nothing and
\* leaves timer and registry alone; the timer changes in no other step, so two
\* broadcasts are at least 1/broadcast_rate apart; and the broadcast phase
\* is reached only through the apply and the update phase.
C19_BroadcastWhenDue ==
  [][/\ pc = "bcast" =>
          IF (previous_time - last_broadcast) * STATE_BROADCAST_RATE >= 1000
          THEN /\ last_broadcast' = previous_time
               /\ {m.to : m \in sent'} = DOMAIN clients'
               /\ \A m \in sent' : m.payload.type = "state"
               /\ \A a \in DOMAIN clients \ DOMAIN clients' :
                    previous_time - clients[a].last_seen > CLIENT_TIMEOUT_MS
          ELSE /\ last_broadcast' = last_broadcast
               /\ sent' = {}
               /\ clients' = clients
     /\ last_broadcast' # last_broadcast =>
          /\ pc = "bcast"
          /\ (last_broadcast' - last_broadcast) * STATE_BROADCAST_RATE >= 1000
     /\ (pc' = "bcast" /\ pc # "bcast") => pc = "update"
     /\ (pc' = "update" /\ pc # "update") => pc = "apply"
     /\ (pc' = "apply" /\ pc # "apply") => pc = "recv"]_vars

\* C19 witness: the second broadcast of a run has just sent a snapshot, one
\* broadcast period after the first
C19_Witness ==
  /\ pc = "sleep"
  /\ previous_time = 4 * TickMs
  /\ last_broadcast = previous_time
  /\ sent # {}

\* where a coordinate ends that a move carries to `to`, between the bounds
Bounded(to, low, high) == IF to < low THEN low ELSE IF to > high THEN high ELSE to

\* C13: move_forward carries the tank along its hull angle by speed times
\* elapsed time, so from (100,100) at hull angle 0 it is at (320,100) after
\* one second; a coordinate carried beyond a bound of the playfield (field
\* margin plus half the body width from the edge) is the bound itself
\* afterwards; nothing else of the tank changes and a result always exists.
C13_MoveForward ==
  probe.op = "move_forward" =>
    LET t == probe.tank
        r == probe.result
        low == (FIELD_MARGIN + TANK_BODY_W \div 2) * 1000
        to_x == t.x + (Cos1000(t.angle) * move_speed * probe.ms) \div 1000
        to_y == t.y + (Sin1000(t.angle) * move_speed * probe.ms) \div 1000
    IN  /\ (t.x = 100000 /\ t.y = 100000 /\ t.angle = 0 /\ probe.ms = 1000)
             => (r.x = 320000 /\ r.y = 100000)
        /\ r.x = Bounded(to_x, low, SCREEN_WIDTH * 1000 - low)
        /\ r.y = Bounded(to_y, low, SCREEN_HEIGHT * 1000 - low)
        /\ [r EXCEPT !.x = t.x, !.y = t.y] = t

\* C13 witness: the tank at (100,100) with hull angle 0 was moved forward
\* for one second
C13_Witness ==
  /\ probe.op = "move_forward"
  /\ probe.tank.x = 100000 /\ probe.tank.y = 100000
  /\ probe.tank.angle = 0
  /\ probe.ms = 1000
  /\ probe.result.x = 320000

\* the squared Euclidean distance of two TankStates
Distance2(a, b) == (a.x - b.x) * (a.x - b.x) + (a.y - b.y) * (a.y - b.y)

\* C14: the enemy _select_target returns is one of the list, no enemy of the
\* list is nearer to the friendly tank, and every enemy before it in the
\* list is farther away.
C14_SelectTarget ==
  probe.op = "select_target" =>
    LET f == probe.friendly
        es == probe.enemies
    IN  \E k \in 1..Len(es) :
          /\ probe.result = es[k]
          /\ \A j \in 1..Len(es) : Distance2(f, es[k]) <= Distance2(f, es[j])
          /\ \A j \in 1..(k - 1) : Distance2(f, es[j]) > Distance2(f, es[k])

\* C14 witness: two different enemies are nearest, at the same distance, a
\* farther one comes before them, and the first of the two was returned
C14_Witness ==
  /\ probe.op = "select_target"
  /\ Len(probe.enemies) = 3
  /\ Distance2(probe.friendly, probe.enemies[1])
       > Distance2(probe.friendly, probe.enemies[2])
  /\ Distance2(probe.friendly, probe.enemies[2])
       = Distance2(probe.friendly, probe.enemies[3])
  /\ probe.enemies[2].x # probe.enemies[3].x
  /\ probe.result = probe.enemies[2]

\* the angle in [-180,180) that turns `from` into `to`
ShortestError(to, from) == CHOOSE e \in -180..179 : (to - from - e) % 360 = 0

\* C15: of turret_right, turret_left and fire the computed command has
\* exactly one true: turret_right if the signed shortest error from the
\* turret angle to the bearing of the target is above 5, turret_left if it is
\* below -5, fire if it is from -5 to 5, both included.
C15_Deadband ==
  probe.op = "compute_command" =>
    LET f == probe.friendly
        c == probe.result
        error == ShortestError(Atan2Deg(probe.target.y - f.y, probe.target.x - f.x),
                               f.turret_angle)
    IN  /\ Cardinality({n \in {"turret_right", "turret_left", "fire"} : c[n]}) = 1
        /\ error > 5 => c.turret_right
        /\ error < -5 => c.turret_left
        /\ (error >= -5 /\ error <= 5) => c.fire

\* C15 witness: the target stands at bearing 90, the turret at 85, and the
\* command fires
C15_Witness ==
  /\ probe.op = "compute_command"
  /\ probe.target.x = probe.friendly.x
  /\ probe.target.y > probe.friendly.y
  /\ probe.friendly.turret_angle = 85
  /\ probe.result.fire
  /\ ~probe.result.turret_right

\* C16: from_dict of to_dict of a TankState is that TankState, field by
\* field, its projectiles in their order; the dictionary of a TankState
\* without projectiles has the key with an empty list, which comes back as
\* an empty list.
C16_RoundTrip ==
  probe.op = "round_trip" =>
    /\ probe.result = probe.state
    /\ \A name \in DOMAIN probe.state : probe.result[name] = probe.state[name]
    /\ probe.state.projectiles = <<>> =>
         /\ "projectiles" \in DOMAIN probe.dict
         /\ probe.dict.projectiles = <<>>
         /\ probe.result.projectiles = <<>>

\* C16 witness: a TankState with is_player set, colours other than the
\* defaults of from_dict and two projectiles went through both conversions
C16_Witness ==
  /\ probe.op = "round_trip"
  /\ probe.state.is_player
  /\ probe.state.color = ENEMY_TANK_COLOR
  /\ probe.state.turret_color = ENEMY_TANK_COLOR
  /\ Len(probe.state.projectiles) = 2
  /\ Len(probe.result.projectiles) = 2

\* the client has just taken a snapshot from its socket
ClientGotSnapshot == ai.last = "state"

\* the server has just accepted an input of the client
ServerTookInput == InputWasAccepted /\ received.from = AiAddress

\* C12: the network loses only finitely many datagrams, so if the server
\* loop keeps iterating, the client takes a snapshot from its socket again
\* and again, and the server accepts an input of the client, which it then
\* applies, again and again.
C12_SelfHealing ==
  ([]<>(pc = "sleep")) => (([]<>ClientGotSnapshot) /\ ([]<>ServerTookInput))

\* C20: the drain ends only when no datagram is pending, and it always
\* ends: every iteration that has started goes on to the apply phase and
\* from there through the update phase, whatever arrives.
C20_DrainTerminates ==
  /\ [][(pc = "recv" /\ pc' = "apply") => net.inbox = <<>>]_vars
  /\ (pc = "recv") ~> (pc = "apply")
  /\ (pc = "apply") ~> (pc = "bcast")

\* a broadcast with its sweep was the last step of the server
SweepJustRan ==
  /\ pc = "sleep"
  /\ previous_time > 0
  /\ last_broadcast = previous_time

\* C21: right after a sweep every session of the registry has a last-seen
\* age of at most the client timeout, and the snapshots of that broadcast
\* went to exactly these sessions, so to no session older than the timeout.
C21_SessionsBounded ==
  SweepJustRan =>
    /\ \A a \in DOMAIN clients :
         previous_time - clients[a].last_seen <= CLIENT_TIMEOUT_MS
    /\ {m.to : m \in sent} = DOMAIN clients
    /\ \A m \in sent :
         /\ m.payload.type = "state"
         /\ previous_time - clients[m.to].last_seen <= CLIENT_TIMEOUT_MS

\* C21 witness: a sweep has run that kept a session whose age is exactly the
\* timeout and sent it the snapshot, while the player session that once
\* wrote to the player command buffer is gone
C21_Witness ==
  /\ SweepJustRan
  /\ Cardinality(DOMAIN clients) = 1
  /\ \A a \in DOMAIN clients :
       /\ clients[a].team = "enemy"
       /\ previous_time - clients[a].last_seen = CLIENT_TIMEOUT_MS
       /\ \E m \in sent : m.to = a
  /\ DOMAIN controls.player # {}


\* C22: the fire cooldown of every tank is at least 0 and at most the reload
\* time; update(dt) leaves a cooldown that is dt lower, or 0 where that would
\* be below 0; and a call that raises the cooldown is a call of fire.
C22_Cooldown ==
  /\ \A team \in DOMAIN team_tanks :
       \A i \in 1..Len(team_tanks[team]) :
         /\ team_tanks[team][i].cooldown >= 0
         /\ team_tanks[team][i].cooldown <= reload_time_ms
  /\ LET before == called.before
         after == team_tanks[called.team][called.index]
     IN  /\ called.op = "update" =>
               after.cooldown = (IF before.cooldown - called.ms < 0 THEN 0
                                 ELSE before.cooldown - called.ms)
         /\ after.cooldown > before.cooldown => called.op = "fire"

\* C22 witness: update was called with more elapsed time than was left of
\* the cooldown of a shot, and the cooldown is 0
C22_Witness ==
  /\ called.op = "update"
  /\ called.before.cooldown > 0
  /\ called.before.cooldown < called.ms
  /\ team_tanks[called.team][called.index].cooldown = 0


\* the double lies in [0, 360)
FloatNormalized(v) ==
  /\ ~FloatNegative(v)
  /\ v.deg < 360 \/ (v.deg = 360 /\ v.q < 0)

\* C23: after each of the four rotations, whatever the elapsed time, the
\* hull angle and the turret angle of the tank are at least 0 and less than
\* 360.
C23_AnglesNormalized ==
  probe.op \in {"rotate_left", "rotate_right", "rotate_turret_left",
                "rotate_turret_right"}
    => /\ FloatNormalized(probe.result.angle)
       /\ FloatNormalized(probe.result.turret_angle)


\* where a projectile is after the elapsed time, and what is left of its
\* lifetime
Advanced(p, ms) ==
  [x |-> p.x + (p.vx * ms) \div 1000, y |-> p.y + (p.vy * ms) \div 1000,
   vx |-> p.vx, vy |-> p.vy, lifetime |-> p.lifetime - ms]

\* the projectile has lifetime left and is on the screen
OnScreenAndLive(q) ==
  /\ q.lifetime > 0
  /\ q.x >= 0 /\ q.x <= SCREEN_WIDTH * 1000
  /\ q.y >= 0 /\ q.y <= SCREEN_HEIGHT * 1000

\* C24: after update the tank holds exactly those of its projectiles, in
\* their order and advanced by the elapsed time, that have lifetime left and
\* are on the screen: none whose lifetime is 0 or less or that is off the
\* screen is kept, and none is dropped that has lifetime left and is on it.
C24_ProjectilesCulled ==
  probe.op = "update" =>
    /\ \A i \in 1..Len(probe.result.projectiles) :
         OnScreenAndLive(probe.result.projectiles[i])
    /\ probe.result.projectiles =
         SelectSeq([i \in 1..Len(probe.tank.projectiles) |->
                      Advanced(probe.tank.projectiles[i], probe.ms)],
                   OnScreenAndLive)

\* C24 witness: of two projectiles the first left the screen with lifetime
\* to spare and the second arrived on the edge of the screen; the tank holds
\* the second only
C24_Witness ==
  /\ probe.op = "update"
  /\ Len(probe.tank.projectiles) = 2
  /\ Advanced(probe.tank.projectiles[1], probe.ms).x > SCREEN_WIDTH * 1000
  /\ Advanced(probe.tank.projectiles[1], probe.ms).lifetime > 0
  /\ Advanced(probe.tank.projectiles[2], probe.ms).x = SCREEN_WIDTH * 1000
  /\ probe.result.projectiles = <<Advanced(probe.tank.projectiles[2], probe.ms)>>


\* the distance a tank's position keeps from every edge of the screen: the
\* field margin and half the first component of the body size
EdgeDistance == (FIELD_MARGIN + TANK_BODY_W \div 2) * 1000

\* C25: the position of every tank is at least the field margin plus the
\* tank half-size away from every edge of the screen, on both axes, from the
\* initial roster on and after every call of a Tank method.
C25_InsidePlayfield ==
  \A team \in DOMAIN team_tanks :
    \A i \in 1..Len(team_tanks[team]) :
      /\ team_tanks[team][i].x >= EdgeDistance
      /\ team_tanks[team][i].x <= SCREEN_WIDTH * 1000 - EdgeDistance
      /\ team_tanks[team][i].y >= EdgeDistance
      /\ team_tanks[team][i].y <= SCREEN_HEIGHT * 1000 - EdgeDistance

\* C25 witness: move_backward would have carried the tank beyond the lower
\* bound of the playfield, and the tank stands on that bound
C25_Witness ==
  /\ called.op = "move_backward"
  /\ called.before.y - (Sin1000(called.before.angle) * move_speed * called.ms) \div 1000
       > SCREEN_HEIGHT * 1000 - EdgeDistance
  /\ team_tanks[called.team][called.index].y = SCREEN_HEIGHT * 1000 - EdgeDistance


\* the identifiers of both teams, one entry for every tank
AllIdentifiers ==
  [i \in 1..Len(team_tanks.player) |-> team_tanks.player[i].identifier]
    \o [i \in 1..Len(team_tanks.enemy) |-> team_tanks.enemy[i].identifier]

\* C26: there are exactly the two teams player and enemy with exactly five
\* tanks each, no identifier occurs twice, in one team or in both, so every
\* tank belongs to exactly one team, and the tanks carry the identifiers
\* player_0..player_4 and enemy_0..enemy_4 in this order, in every state.
C26_RosterFixed ==
  /\ DOMAIN team_tanks = {"player", "enemy"}
  /\ Len(team_tanks.player) = 5
  /\ Len(team_tanks.enemy) = 5
  /\ \A i, j \in 1..Len(AllIdentifiers) :
       i # j => AllIdentifiers[i] # AllIdentifiers[j]
  /\ AllIdentifiers = PlayerIds \o EnemyIds

\* C26 witness: a session that wrote to the player command buffer has been
\* swept, a tank has moved or fired since the start, and a later iteration
\* is under way
C26_Witness ==
  /\ pc = "recv"
  /\ last_broadcast > 0
  /\ previous_time > last_broadcast
  /\ DOMAIN clients = {}
  /\ DOMAIN controls.player # {}
  /\ team_tanks # CreateTeams
  /\ handled = MaxMsgs


\* the datagram is an input record of the AI client's team that holds one
\* command set of seven intents for every owned tank and for nothing else
OneCommandSetPerOwnedTank(m) ==
  /\ m.from = AiAddress
  /\ m.msg.kind = "input"
  /\ m.msg.team = JStr("enemy")
  /\ DOMAIN m.msg.commands.o = {ai.owned_tanks[i] : i \in 1..Len(ai.owned_tanks)}
  /\ Cardinality(DOMAIN m.msg.commands.o) = Len(ai.owned_tanks)
  /\ \A id \in DOMAIN m.msg.commands.o :
       DOMAIN m.msg.commands.o[id].o = {IntentNames[i] : i \in 1..Len(IntentNames)}

\* C27: in the send step of an AI tick the client hands the network exactly
\* one datagram if it has owned tanks and a snapshot, an input record with
\* one command set for each owned tank (the network delivers or loses it),
\* and nothing if it has no owned tanks or no snapshot.
C27_OneInputPerTick ==
  [][(ai.pc = "send" /\ ai.pc' = "sleep")
     => IF ai.owned_tanks # <<>> /\ ai.state # <<>>
        THEN /\ net'.ai_inbox = net.ai_inbox
             /\ \/ /\ net'.lost = net.lost + 1
                   /\ net'.inbox = net.inbox
                \/ /\ net'.lost = net.lost
                   /\ Len(net'.inbox) = Len(net.inbox) + 1
                   /\ SubSeq(net'.inbox, 1, Len(net.inbox)) = net.inbox
                   /\ OneCommandSetPerOwnedTank(net'.inbox[Len(net'.inbox)])
        ELSE net' = net]_vars

\* C27 witness: the client, which owns the five enemy tanks, has just sent
\* an input record with five command sets, which is pending at the server
C27_Witness ==
  /\ ai.pc = "sleep"
  /\ Len(ai.owned_tanks) = TanksPerTeam
  /\ net.inbox # <<>>
  /\ OneCommandSetPerOwnedTank(net.inbox[Len(net.inbox)])
  /\ net.inbox[Len(net.inbox)].msg.commands.o["enemy_0"].o["fire"] = "true"


\* C28: of rotate_left and rotate_right the computed command has at most
\* one true: rotate_right if the signed shortest error from the hull angle to
\* the bearing of the target is above 10, rotate_left if it is below -10,
\* neither from -10 to 10; fire is true exactly if the turret error is from
\* -5 to 5, whatever the hull error; move_forward and move_backward are false.
C28_HullDeadband ==
  probe.op = "compute_command" =>
    LET f == probe.friendly
        c == probe.result
        bearing == Atan2Deg(probe.target.y - f.y, probe.target.x - f.x)
        hull_error == ShortestError(bearing, f.angle)
        turret_error == ShortestError(bearing, f.turret_angle)
    IN  /\ ~(c.rotate_left /\ c.rotate_right)
        /\ c.rotate_right = (hull_error > 10)
        /\ c.rotate_left = (hull_error < -10)
        /\ c.fire = (turret_error >= -5 /\ turret_error <= 5)
        /\ ~c.move_forward
        /\ ~c.move_backward

\* C28 witness: the target stands at bearing 0; with the hull at 350, an
\* error of 10, the command turns the hull in no direction and, the turret
\* being 180 off, does not fire
C28_Witness ==
  /\ probe.op = "compute_command"
  /\ probe.target.y = probe.friendly.y
  /\ probe.target.x > probe.friendly.x
  /\ probe.friendly.angle = 350
  /\ probe.friendly.turret_angle = 180
  /\ ~probe.result.rotate_left
  /\ ~probe.result.rotate_right
  /\ ~probe.result.fire


\* the intents the command buffer holds for a tank, all false if it holds none
Buffered(team, identifier) ==
  IF identifier \in DOMAIN controls[team]
  THEN controls[team][identifier]
  ELSE [name \in {IntentNames[i] : i \in 1..Len(IntentNames)} |-> FALSE]

\* C29: the command buffer changes only in a step that handles an input of
\* a session of the claimed team, and no step removes an entry: a broadcast
\* with its sweep, whether or not it removes sessions, leaves every entry as
\* it is; and every apply phase applies to every tank the entry the buffer
\* holds for it, whether or not the session that sent it still exists.
C29_ValidUntilReplaced ==
  [][/\ controls' # controls => AcceptsInput
     /\ \A team \in DOMAIN controls :
          \A id \in DOMAIN controls[team] : id \in DOMAIN controls'[team]
     /\ pc = "bcast" => controls' = controls
     /\ pc = "apply" =>
          \A team \in DOMAIN team_tanks :
            \A i \in 1..Len(team_tanks[team]) :
              team_tanks'[team][i] =
                ApplyControl(team_tanks[team][i],
                             Buffered(team, team_tanks[team][i].identifier), dt)]_vars

\* C29 witness: the session that told player_0 to turn right was removed by
\* a broadcast, nobody holds a session, and in the apply phase of a later
\* iteration the tank has turned on: its hull angle is the one of a tank
\* that has turned right ever since the start
C29_Witness ==
  /\ pc = "update"
  /\ DOMAIN clients = {}
  /\ last_broadcast > 0
  /\ previous_time > last_broadcast
  /\ "player_0" \in DOMAIN controls.player
  /\ controls.player["player_0"].rotate_right
  /\ team_tanks.player[1].angle = (270 + (rotation_speed * previous_time) \div 1000) % 360


C31_NoRevival ==
  [][/\ (Handles("input") /\ received'.from \notin DOMAIN clients)
          => /\ ServerStateUnchanged
             /\ sent' = {}
             /\ pc' # "crashed"
     /\ \A a \in DOMAIN clients' \ DOMAIN clients :
          /\ Handles("join")
          /\ received'.from = a
          /\ received'.msg.team \in {JStr("player"), JStr("enemy"), JAbsent}
          /\ clients'[a].last_seen = Time]_vars

\* C31 witness: after a sweep emptied the registry, an input that asks
\* player_0 to fire has been handled, and the entry the removed session left
\* in the player buffer still says not to fire
C31_Witness ==
  /\ pc = "recv"
  /\ received.msg.kind = "input"
  /\ received.msg.team = JStr("player")
  /\ received.msg.commands = JObj("player_0" :> CtlFire)
  /\ DOMAIN clients = {}
  /\ last_broadcast > 0
  /\ "player_0" \in DOMAIN controls.player
  /\ ~controls.player["player_0"].fire

\* C32: the record of a session changes only in a step that handles a join
\* for one of the two teams or accepts an input, either from its address; a
\* broadcast leaves the last-seen time of every session it sends the snapshot
\* to as it was.  A session leaves the registry only in a broadcast at which
\* its last-seen time lies more than the timeout back, and every broadcast
\* removes each such session: so a session without accepted input goes at the
\* first broadcast later than the timeout after its join, and one whose
\* accepted inputs are at most the timeout apart is never removed.
C32_RefreshAndExpiry ==
  [][/\ \A a \in DOMAIN clients \cap DOMAIN clients' :
          clients'[a] # clients[a]
            => /\ received'.from = a
               /\ \/ AcceptsInput
                  \/ /\ Handles("join")
                     /\ received'.msg.team \in {JStr("player"), JStr("enemy"), JAbsent}
     /\ \A m \in sent' :
          m.payload.type = "state"
            => clients'[m.to].last_seen = clients[m.to].last_seen
     /\ \A a \in DOMAIN clients \ DOMAIN clients' :
          /\ pc = "bcast"
          /\ last_broadcast' = previous_time
          /\ previous_time - clients[a].last_seen > CLIENT_TIMEOUT_MS
     /\ (pc = "bcast" /\ (previous_time - last_broadcast) * STATE_BROADCAST_RATE >= 1000)
          => DOMAIN clients' =
               {a \in DOMAIN clients :
                  previous_time - clients[a].last_seen <= CLIENT_TIMEOUT_MS}]_vars

\* C32 witness: a session that joined in the first iteration and sent no
\* input has just been sent the snapshot of the broadcast that falls exactly
\* the timeout later; its last-seen time is still the time of its join
C32_Witness ==
  /\ pc = "sleep"
  /\ previous_time = CLIENT_TIMEOUT_MS
  /\ last_broadcast = previous_time
  /\ \E a \in DOMAIN clients :
       /\ clients[a].last_seen = 0
       /\ \E m \in sent : m.to = a /\ m.payload.type = "state"

\* C33: a join for one of the two teams from an address that holds a session
\* leaves the registry with the same addresses, the sender's session now of
\* the requested team and every other session as it was; and whether an
\* input is taken is decided by the team the session has when the input is
\* handled: an input that claims another team, such as the team the session
\* had before a re-join, changes nothing, and one that claims the session's
\* team and is well formed is stored in the buffer of that team.
C33_Rejoin ==
  [][/\ (/\ Handles("join")
         /\ received'.from \in DOMAIN clients
         /\ received'.msg.team \in {JStr("player"), JStr("enemy")})
          => /\ DOMAIN clients' = DOMAIN clients
             /\ Cardinality(DOMAIN clients') = Cardinality(DOMAIN clients)
             /\ clients'[received'.from].team = received'.msg.team.s
             /\ \A a \in DOMAIN clients \ {received'.from} : clients'[a] = clients[a]
     /\ (/\ Handles("input")
         /\ received'.from \in DOMAIN clients
         /\ received'.msg.team = JStr(OtherTeam(clients[received'.from].team)))
          => ServerStateUnchanged /\ sent' = {}
     /\ (/\ Handles("input")
         /\ received'.from \in DOMAIN clients
         /\ received'.msg.team = JStr(clients[received'.from].team)
         /\ WellFormedInput(received'.msg))
          => /\ pc' # "crashed"
             /\ \A id \in DOMAIN received'.msg.commands.o :
                  id \in DOMAIN controls'[clients[received'.from].team]]_vars

\* C33 witness: the only session there is wrote to the enemy buffer, and in
\* the same iteration its address joined again, now for team player
C33_Witness ==
  /\ pc = "recv"
  /\ previous_time = 0
  /\ received.msg.kind = "join"
  /\ received.msg.team = JStr("player")
  /\ DOMAIN clients = {received.from}
  /\ clients[received.from].team = "player"
  /\ DOMAIN controls.enemy # {}
  /\ \E m \in sent : m.payload.type = "joined" /\ m.payload.team = "player"

\* C34: a join without a team field is handled as a join for team player:
\* the sender gets a session of team player with the current time as its
\* last-seen time, and the one reply is a joined record for team player
\* that lists the identifiers of the player tanks, not an error.
C34_JoinDefaultsToPlayer ==
  [][(Handles("join") /\ received'.msg.team = JAbsent)
     => /\ DOMAIN clients' = DOMAIN clients \cup {received'.from}
        /\ clients'[received'.from].team = "player"
        /\ clients'[received'.from].last_seen = previous_time
        /\ Cardinality(sent') = 1
        /\ \A m \in sent' :
             /\ m.to = received'.from
             /\ m.payload.type = "joined"
             /\ m.payload.team = "player"
             /\ Len(m.payload.tanks) = Len(team_tanks.player)
             /\ \A i \in 1..Len(m.payload.tanks) :
                  m.payload.tanks[i] = team_tanks.player[i].identifier
        /\ controls' = controls
        /\ team_tanks' = team_tanks
        /\ pc' = pc]_vars

\* C34 witness: a join without a team field has been handled, its sender
\* holds a session of team player and has been sent the joined record
C34_Witness ==
  /\ pc = "recv"
  /\ received.msg.kind = "join"
  /\ received.msg.team = JAbsent
  /\ received.from \in DOMAIN clients
  /\ clients[received.from].team = "player"
  /\ \E m \in sent :
       /\ m.to = received.from
       /\ m.payload.type = "joined"
       /\ {m.payload.tanks[i] : i \in 1..Len(m.payload.tanks)} = IdSetOf("player")

\* C35: a step gives a tank at most one projectile more, and only the
\* command application of a tick does, to a tank whose cooldown is zero,
\* which it sets to the reload time; the cooldown goes down only in the world
\* update, by at most the dt of the tick, so the dt values between two spawns
\* of a tank add up to the reload time at least.  The projectiles a tank
\* holds are never more than the lifetime divided by the reload time, rounded
\* up, plus one, however long the AI client keeps the fire intent true.
C35_ProjectilesBounded ==
  [][\A team \in DOMAIN team_tanks : \A i \in 1..Len(team_tanks[team]) :
       LET t == team_tanks[team][i]
           u == team_tanks'[team][i]
       IN  /\ Len(u.projectiles) <= Len(t.projectiles) + 1
           /\ Len(u.projectiles) > Len(t.projectiles)
                => /\ pc = "apply"
                   /\ ControlFor(team, t.identifier).fire
                   /\ t.cooldown = 0
                   /\ u.cooldown = reload_time_ms
           /\ u.cooldown > t.cooldown => Len(u.projectiles) = Len(t.projectiles) + 1
           /\ u.cooldown < t.cooldown
                => /\ pc = "update"
                   /\ t.cooldown - u.cooldown <= dt
           /\ Len(t.projectiles)
                <= (PROJECTILE_LIFETIME_MS + reload_time_ms - 1) \div reload_time_ms + 1
           /\ Len(u.projectiles)
                <= (PROJECTILE_LIFETIME_MS + reload_time_ms - 1) \div reload_time_ms + 1]_vars

\* C35 witness: with the fire intent of an enemy tank true in the buffer
\* and the client's inputs arriving tick after tick, the tank has just
\* fired; its cooldown is the reload time and it holds its one projectile
C35_Witness ==
  /\ pc = "update"
  /\ ai.owned_tanks # <<>>
  /\ \E i \in 1..Len(team_tanks.enemy) :
       /\ team_tanks.enemy[i].identifier \in DOMAIN controls.enemy
       /\ controls.enemy[team_tanks.enemy[i].identifier].fire
       /\ team_tanks.enemy[i].cooldown = reload_time_ms
       /\ Len(team_tanks.enemy[i].projectiles) = 1

\* the datagrams of one kind from the AI client that are pending at the server
PendingFromAi(kind) ==
  {i \in 1..Len(net.inbox) :
     net.inbox[i].from = AiAddress /\ net.inbox[i].msg.kind = kind}

\* the client is past its start-up, owns no tank, and neither its join nor a
\* joined reply is on the way
JoinCameToNothing ==
  /\ ai.pc # "init"
  /\ ai.owned_tanks = <<>>
  /\ PendingFromAi("join") = {}
  /\ \A i \in 1..Len(net.ai_inbox) : net.ai_inbox[i].type # "joined"
  /\ \A m \in sent : m.payload.type # "joined"

\* C36: the AI client hands a datagram to the network in its send step only
\* if it has owned tanks and a snapshot; owned tanks come from handling a
\* joined reply and the snapshot from handling a state record, whichever
\* arrives first; a join leaves the client only in the one step that ends
\* its start-up, to which it never returns; the server sends a joined reply
\* only when it handles a join.  So once the join or the joined reply is
\* lost, the client owns no tank and sends no input for the rest of the run.
C36_JoinOnceInputAfterJoined ==
  /\ [][/\ (ai.pc = "send" /\ ai'.pc # "send" /\ net' # net)
             => ai.owned_tanks # <<>> /\ ai.state # <<>>
        /\ Cardinality(PendingFromAi("input")') > Cardinality(PendingFromAi("input"))
             => ai.pc = "send" /\ ai.owned_tanks # <<>> /\ ai.state # <<>>
        /\ ai'.owned_tanks # ai.owned_tanks
             => /\ ai.pc = "recv"
                /\ net.ai_inbox # <<>>
                /\ Head(net.ai_inbox).type = "joined"
        /\ ai'.state # ai.state
             => /\ ai.pc = "recv"
                /\ net.ai_inbox # <<>>
                /\ Head(net.ai_inbox).type = "state"
        /\ (ai.pc = "init" /\ ai'.pc # "init")
             => \/ Cardinality(PendingFromAi("join")') = Cardinality(PendingFromAi("join")) + 1
                \/ net'.lost = net.lost + 1
        /\ ai.pc # "init"
             => /\ ai'.pc # "init"
                /\ Cardinality(PendingFromAi("join")') <= Cardinality(PendingFromAi("join"))
        /\ (\E m \in sent' : m.payload.type = "joined")
             => pc = "recv" /\ received'.msg.kind = "join"]_vars
  /\ [](JoinCameToNothing => [](ai.owned_tanks = <<>> /\ PendingFromAi("input") = {}))

\* C36 witness: the joined reply was lost; the client has handled a snapshot
\* of the server, which holds its session, and has ended a send step
\* without any input on its way
C36_Witness ==
  /\ JoinCameToNothing
  /\ net.lost = 1
  /\ AiAddress \in DOMAIN clients
  /\ ai.state # <<>>
  /\ ai.pc = "sleep"
  /\ PendingFromAi("input") = {}

\* the intents _send_commands would send now for the tank `identifier`
IntentsSentFor(identifier) ==
  {m.msg.commands.o[identifier].o : m \in AiInputs}

\* C37: after the client handled two state records, its view is the tanks
\* of the record it handled second, whichever of the two timestamps is the
\* later one, and nothing of the first remains; the input of its next send
\* step is computed from that view: it asks the tank to fire exactly if the
\* turret angle in the second record is within 5 degrees of the bearing 90,
\* and to turn the turret towards it otherwise.
C37_LastHandledSnapshot ==
  probe.op = "handle_messages"
    => /\ Len(ai.state) = Len(probe.second.tanks)
       /\ \A i \in 1..Len(ai.state) :
            /\ ai.state[i].identifier = probe.second.tanks[i].id
            /\ ai.state[i].team = probe.second.tanks[i].team
            /\ ai.state[i].x = probe.second.tanks[i].x
            /\ ai.state[i].y = probe.second.tanks[i].y
            /\ ai.state[i].angle = probe.second.tanks[i].angle
            /\ ai.state[i].turret_angle = probe.second.tanks[i].turret_angle
       /\ Cardinality(AiInputs) = 1
       /\ \A intents \in IntentsSentFor("enemy_0") :
            LET turret == probe.second.tanks[1].turret_angle IN
            /\ intents.fire = "true" <=> (turret >= 85 /\ turret <= 95)
            /\ intents.turret_right = "true" <=> turret < 85
            /\ intents.turret_left = "true" <=> turret > 95

\* C37 witness: the record handled second is the older one; it shows the
\* turret 30 degrees off the bearing where the newer record, handled first,
\* showed it aligned, and the next input turns the turret and does not fire
C37_Witness ==
  /\ probe.op = "handle_messages"
  /\ probe.first.timestamp > probe.second.timestamp
  /\ probe.first.tanks[1].turret_angle = 90
  /\ probe.second.tanks[1].turret_angle = 60
  /\ ai.state[1].turret_angle = 60
  /\ \A intents \in IntentsSentFor("enemy_0") :
       intents.turret_right = "true" /\ intents.fire = "false"
  /\ IntentsSentFor("enemy_0") # {}

\* the turret of enemy tank i is within 5 degrees of the bearing of the
\* nearest player tank, which stands straight below it: 90
TurretOnTarget(i) ==
  /\ team_tanks.enemy[i].x = team_tanks.player[i].x
  /\ team_tanks.enemy[i].y < team_tanks.player[i].y
  /\ team_tanks.enemy[i].turret_angle >= 85
  /\ team_tanks.enemy[i].turret_angle <= 95

\* every input of the AI client that is pending at the server, and the
\* command buffer, ask every enemy tank to fire and not to turn its turret
OnlyFireAsked ==
  /\ \A k \in PendingFromAi("input") :
       \A id \in DOMAIN net.inbox[k].msg.commands.o :
         /\ net.inbox[k].msg.commands.o[id].o.fire = "true"
         /\ net.inbox[k].msg.commands.o[id].o.turret_left = "false"
         /\ net.inbox[k].msg.commands.o[id].o.turret_right = "false"
  /\ \A id \in DOMAIN controls.enemy :
       /\ controls.enemy[id].fire
       /\ ~controls.enemy[id].turret_left
       /\ ~controls.enemy[id].turret_right

\* enemy tank i has fired in the command application of this tick
JustFired(i) ==
  /\ pc = "update"
  /\ team_tanks.enemy[i].cooldown = reload_time_ms
  /\ team_tanks.enemy[i].projectiles # <<>>

\* C38: in the closed loop without loss of a datagram, with the turret
\* turning 8 degrees in a tick and the client deciding once per tick, there
\* comes a time from which on the turret of every enemy tank stays within 5
\* degrees of the bearing of its nearest opponent and the client asks for
\* fire and for no turret rotation, and every enemy tank fires again and
\* again.
C38_TurretSettles ==
  ([](net.lost = 0))
    => /\ <>[](\A i \in 1..TanksPerTeam : TurretOnTarget(i))
       /\ <>[]OnlyFireAsked
       /\ []<>JustFired(1)
       /\ []<>JustFired(TanksPerTeam)

====
